---- MODULE Spec2Model ----
(***************************************************************************)
(* Funnel & reconciliation engine of the talent tracker.                   *)
(*                                                                         *)
(*   SpecMerge  SyncOrchestrator._mergeData as a pure function, applied to *)
(*              inputs drawn from bounded sets.                            *)
(*   SpecHttp   one AshbyService._post call and one GemService._get call,  *)
(*              attempt by attempt, against every sequence of responses.   *)
(*   Spec       SyncOrchestrator.initialize / syncAll with its two cached  *)
(*              provider syncs, the adapters behind them, the key-value    *)
(*              store, the clock and the popup's manual outreach log.      *)
(*   SpecPages  the two pagination loops, _getAllPages and                 *)
(*              _getAllCursorPages, with their fetch wrappers, against     *)
(*              bounded servers.                                           *)
(*   SpecAdapters  getMonthlyOutreachData and getMonthlyFunnelData as pure *)
(*              functions of a mapping and of what the provider serves.    *)
(*   SpecFunnel calculateRequiredOutreach over bounded targets and rates.  *)
(*                                                                         *)
(* JavaScript objects used as maps (roleName -> count) are functions whose *)
(* domain is the set of keys; null and undefined are the value Null.       *)
(***************************************************************************)
EXTENDS Integers, Sequences, FiniteSets, TLC

VARIABLES
  \* ---- SpecMerge: one application of _mergeData
  mergeIn,        \* [gem, ashby, cal, prior]: the four arguments
  mergeOut,       \* Null before the call, the returned record after it
  \* ---- the clock
  now,            \* Date.now(), in ms
  \* ---- SpecHttp: the HTTP clients
  lastRequestTime,\* AshbyService.lastRequestTime
  http,           \* the _post / _get call in progress, with what it did so far
  calls,          \* calls begun so far
  \* ---- Spec: the orchestrator and what surrounds it
  store,          \* the key-value store (storageService)
  orch,           \* SyncOrchestrator: gemService, ashbyService, status
  sync,           \* the syncAll call in progress: its position and locals
  upstream,       \* what each provider serves
  hist,           \* the previous run, and the model's counters
  \* ---- SpecPages, SpecAdapters, SpecFunnel: one call of a function
  callIn,         \* the function called and its arguments
  callOut         \* Null before the call, what it returned after it

mergeVars == <<mergeIn, mergeOut>>

httpVars == <<lastRequestTime, http, calls>>

orchVars == <<store, orch, sync, upstream, hist>>

callVars == <<callIn, callOut>>

vars == <<mergeIn, mergeOut, now, lastRequestTime, http, calls,
          store, orch, sync, upstream, hist, callIn, callOut>>

\* What each specification leaves alone.
notMergeVars == <<now, httpVars, orchVars, callVars>>

notHttpVars == <<mergeVars, orchVars, callVars>>

notOrchVars == <<mergeVars, httpVars, callVars>>

notCallVars == <<mergeVars, now, httpVars, orchVars>>

----------------------------------------------------------------------------
(* Values *)

Null == [null |-> TRUE]

\* Role names, in the order in which object keys are enumerated.
RoleSeq == <<"r1", "r2">>

Roles == {RoleSeq[i] : i \in 1..Len(RoleSeq)}

MaxCount == 5

MaxSmall == 1

\* Every map from some of the roles to a count in 0..hi.
CountMaps(hi) == UNION {[D -> 0..hi] : D \in SUBSET Roles}

EmptyMap == [r \in {} |-> 0]

\* obj?.key : Null when obj is null or has no such key.
Get(obj, key) == IF key \in DOMAIN obj THEN obj[key] ELSE Null

\* Object.keys(obj || {}) as a set.
Keys(obj) == IF obj = Null THEN {} ELSE DOMAIN obj

\* Object.keys(obj || {}) in enumeration order.
KeySeq(obj) == SelectSeq(RoleSeq, LAMBDA r : r \in Keys(obj))

\* obj?.[role] || 0
CountOf(obj, role) == IF role \in Keys(obj) THEN obj[role] ELSE 0

Max2(a, b) == IF a >= b THEN a ELSE b

----------------------------------------------------------------------------
(* SyncOrchestrator._mergeData *)

\* A variant of Wholesale that adds the prior record's counts to the adapter's.
WholesaleSum(apiMap, manualMap) ==
  IF apiMap # Null
    THEN [r \in DOMAIN apiMap \cup Keys(manualMap) |->
            CountOf(apiMap, r) + CountOf(manualMap, r)]
    ELSE IF manualMap # Null THEN manualMap ELSE EmptyMap

\* One of the five "API if available, else manual" blocks: the spread copy of
\* the adapter's map when it is there, else of the prior record's map.
Wholesale(apiMap, manualMap) ==
  IF apiMap # Null THEN apiMap
  ELSE IF manualMap # Null THEN manualMap ELSE EmptyMap

WholesaleSource(apiMap, name) == IF apiMap # Null THEN name ELSE "manual"

\* A variant of ScreenCount that adds the pipeline and calendar counts.
ScreenCountSum(ashbyCount, calendarCount, manualCount) ==
  Max2(ashbyCount + calendarCount, manualCount)

\* A variant of ScreenCount that adds the new count to the prior record's.
ScreenCountAccumulated(ashbyCount, calendarCount, manualCount) ==
  Max2(ashbyCount, calendarCount) + manualCount

\* A variant of ScreenCount that takes the larger of the two counts reported
\* now and leaves the prior record's count out.
ScreenCountLatest(ashbyCount, calendarCount, manualCount) ==
  Max2(ashbyCount, calendarCount)

\* Math.max(ashbyCount, calendarCount, manualCount)
ScreenCount(ashbyCount, calendarCount, manualCount) ==
  Max2(Max2(ashbyCount, calendarCount), manualCount)

\* new Set([...keys(ashby.screens), ...keys(calendar), ...keys(manual.screens)])
\* in insertion order.
RECURSIVE Dedup(_)
Dedup(s) ==
  IF s = <<>> THEN <<>>
  ELSE LET rest == Dedup(SubSeq(s, 1, Len(s) - 1))
           last == s[Len(s)]
       IN IF \E i \in 1..Len(rest) : rest[i] = last THEN rest
          ELSE Append(rest, last)

AllScreenRoles(ashbyData, calendarScreenings, manualData) ==
  Dedup(KeySeq(Get(ashbyData, "screens")) \o KeySeq(calendarScreenings)
        \o KeySeq(Get(manualData, "screens")))

\* screenSources after the loop over allScreenRoles.
RECURSIVE ScreenSources(_, _, _)
ScreenSources(roles, ashbyScreens, calendarScreenings) ==
  IF roles = <<>> THEN <<>>
  ELSE LET role == roles[Len(roles)]
           before == ScreenSources(SubSeq(roles, 1, Len(roles) - 1),
                                   ashbyScreens, calendarScreenings)
           a == IF CountOf(ashbyScreens, role) > 0 THEN <<"ashby">> ELSE <<>>
           c == IF CountOf(calendarScreenings, role) > 0
                  THEN <<"calendar">> ELSE <<>>
       IN before \o a \o c

\* [...new Set(screenSources)].join('+') || 'manual'
JoinSources(srcs) ==
  LET d == Dedup(srcs)
  IN IF d = <<>> THEN "manual"
     ELSE IF Len(d) = 1 THEN d[1]
     ELSE IF d[1] = "ashby" THEN "ashby+calendar" ELSE "calendar+ashby"

_mergeData(gemData, ashbyData, calendarScreenings, manualData) ==
  LET roles == AllScreenRoles(ashbyData, calendarScreenings, manualData)
      roleSet == {roles[i] : i \in 1..Len(roles)}
      ashbyScreens == Get(ashbyData, "screens")
  IN [outreach  |-> Wholesale(Get(gemData, "outreach"), Get(manualData, "outreach")),
      responses |-> Wholesale(Get(gemData, "responses"), Get(manualData, "responses")),
      screens   |-> [role \in roleSet |->
                       ScreenCount(CountOf(ashbyScreens, role),
                                   CountOf(calendarScreenings, role),
                                   CountOf(Get(manualData, "screens"), role))],
      finals    |-> Wholesale(Get(ashbyData, "finals"), Get(manualData, "finals")),
      offers    |-> Wholesale(Get(ashbyData, "offers"), Get(manualData, "offers")),
      hires     |-> Wholesale(Get(ashbyData, "hires"), Get(manualData, "hires")),
      _sources  |->
        [outreach  |-> WholesaleSource(Get(gemData, "outreach"), "gem"),
         responses |-> WholesaleSource(Get(gemData, "responses"), "gem"),
         screens   |-> JoinSources(ScreenSources(roles, ashbyScreens,
                                                 calendarScreenings)),
         finals    |-> WholesaleSource(Get(ashbyData, "finals"), "ashby"),
         offers    |-> WholesaleSource(Get(ashbyData, "offers"), "ashby"),
         hires     |-> WholesaleSource(Get(ashbyData, "hires"), "ashby")]]

----------------------------------------------------------------------------
(* The HTTP clients: AshbyService._post and GemService._get *)

\* Date.now() when the model starts: any instant long after the epoch.
StartTime == 100000

MaxCalls == 2

minRequestInterval == 4100

FetchTimeoutMs == 30000

AshbyDefaultRetryAfter == 5

GemDefaultRetryAfter == 1

\* How long an answered (or refused) fetch takes, in ms.
Latency == 100

\* What one fetch can come to: a response with a status, the abort of the
\* 30 s timer, or a network failure.
Outcomes == {"ok", "429", "401", "403", "500", "abort", "network"}

\* parseInt(response.headers.get('Retry-After')): 0 stands for a header that
\* is absent or not a number (NaN), which || replaces like 0 itself.
RetryAfterValues == {0, 2}

FetchDuration(outcome) == IF outcome = "abort" THEN FetchTimeoutMs ELSE Latency

Undefined == [undefined |-> TRUE]

JsonValue == [json |-> TRUE]

Clients == {"ashby", "gem"}

HttpAtRest ==
  /\ lastRequestTime = 0
  /\ http = [client |-> "ashby", pc |-> "idle", attempt |-> 0, result |-> Null,
             trace |-> <<>>]
  /\ calls = 0

\* The error object a failed fetch or a bad status raises inside _post's try.
AshbyError(outcome) ==
  CASE outcome \in {"401", "403"} ->
         [name |-> "Error", message |-> "Ashby API auth error", status |-> outcome]
    [] outcome = "500" ->
         [name |-> "Error", message |-> "Ashby API error", status |-> "none"]
    [] outcome = "abort" ->
         [name |-> "AbortError", message |-> "aborted", status |-> "none"]
    [] OTHER ->
         [name |-> "TypeError", message |-> "Failed to fetch", status |-> "none"]

\* _post's catch block: what it does with an error raised in attempt number
\* attempt (0-based): rethrow, or back off and go round the loop again.
PostCatch(attempt, error) ==
  IF attempt = 2
    THEN [pc |-> "thrown", result |-> error, sleep |-> 0, attempt |-> attempt]
  ELSE IF error.name = "AbortError"
    THEN [pc |-> "thrown",
          result |-> [name |-> "Error", message |-> "Ashby API: request timeout",
                      status |-> "none"],
          sleep |-> 0, attempt |-> attempt]
  ELSE [pc |-> "attempt", result |-> Null, sleep |-> minRequestInterval,
        attempt |-> attempt + 1]

\* A variant of PostLoopEnd for a loop of four rounds.
PostLoopEndLate(step) ==
  IF step.pc = "attempt" /\ step.attempt = 4
    THEN [step EXCEPT !.pc = "returned", !.result = Undefined]
    ELSE step

\* What follows `continue` or the end of the catch block: the next attempt, or
\* the end of the for loop, after which _post has no statement left and
\* returns undefined.
PostLoopEnd(step) ==
  IF step.pc = "attempt" /\ step.attempt = 3
    THEN [step EXCEPT !.pc = "returned", !.result = Undefined]
    ELSE step

\* One iteration of _post's for loop, after the fetch came to `outcome`.
PostStep(attempt, outcome, retryAfterHeader) ==
  PostLoopEnd(
    CASE outcome = "429" ->
           [pc |-> "attempt", result |-> Null,
            sleep |-> 1000 * (IF retryAfterHeader = 0 THEN AshbyDefaultRetryAfter
                              ELSE retryAfterHeader),
            attempt |-> attempt + 1]
      [] outcome = "ok" ->
           [pc |-> "returned", result |-> JsonValue, sleep |-> 0,
            attempt |-> attempt]
      [] OTHER -> PostCatch(attempt, AshbyError(outcome)))

\* What follows `continue` in _get: the next attempt, or the throw after the
\* for loop.
GetLoopEnd(step) ==
  IF step.pc = "attempt" /\ step.attempt = 3
    THEN [step EXCEPT !.pc = "thrown",
                      !.result = [name |-> "Error",
                                  message |-> "Gem API: max retries exceeded",
                                  status |-> "none"]]
    ELSE step

\* One iteration of _get's for loop: _rawGet's failure is not caught, a 429
\* sleeps and goes round again, any other bad status throws.
GetStep(attempt, outcome, retryAfterHeader) ==
  GetLoopEnd(
    CASE outcome = "429" ->
           [pc |-> "attempt", result |-> Null,
            sleep |-> 1000 * (IF retryAfterHeader = 0 THEN GemDefaultRetryAfter
                              ELSE retryAfterHeader),
            attempt |-> attempt + 1]
      [] outcome = "ok" ->
           [pc |-> "returned", result |-> JsonValue, sleep |-> 0,
            attempt |-> attempt]
      [] outcome = "abort" ->
           [pc |-> "thrown",
            result |-> [name |-> "AbortError", message |-> "aborted",
                        status |-> "none"],
            sleep |-> 0, attempt |-> attempt]
      [] outcome = "network" ->
           [pc |-> "thrown",
            result |-> [name |-> "TypeError", message |-> "Failed to fetch",
                        status |-> "none"],
            sleep |-> 0, attempt |-> attempt]
      [] OTHER ->
           [pc |-> "thrown",
            result |-> [name |-> "Error", message |-> "Gem API error",
                        status |-> "none"],
            sleep |-> 0, attempt |-> attempt])

Sleep(ms) == [ev |-> "sleep", ms |-> ms]

Fetch(at, outcome) == [ev |-> "fetch", at |-> at, outcome |-> outcome]

HttpFree == http.pc \in {"idle", "returned", "thrown"}

\* _post is called: the interval wait before the loop.
PostBegin ==
  /\ HttpFree
  /\ calls < MaxCalls
  /\ calls' = calls + 1
  /\ LET timeSinceLast == now - lastRequestTime
         wait == IF timeSinceLast < minRequestInterval
                   THEN minRequestInterval - timeSinceLast ELSE 0
     IN /\ now' = now + wait
        /\ http' = [client |-> "ashby", pc |-> "attempt", attempt |-> 0,
                    result |-> Null,
                    trace |-> IF wait > 0 THEN <<Sleep(wait)>> ELSE <<>>]
  /\ UNCHANGED <<lastRequestTime, notHttpVars>>

\* One attempt of _post: the fetch, and what the loop body does with it.
PostAttempt ==
  /\ http.client = "ashby"
  /\ http.pc = "attempt"
  /\ \E outcome \in Outcomes, ra \in RetryAfterValues :
       LET step == PostStep(http.attempt, outcome, ra)
       IN /\ outcome # "429" => ra = 0
          /\ lastRequestTime' = now
          /\ now' = now + FetchDuration(outcome) + step.sleep
          /\ http' = [http EXCEPT
                        !.pc = step.pc, !.attempt = step.attempt,
                        !.result = step.result,
                        !.trace = @ \o <<Fetch(now, outcome)>>
                                    \o (IF step.sleep > 0 THEN <<Sleep(step.sleep)>>
                                        ELSE <<>>)]
  /\ UNCHANGED <<calls, notHttpVars>>

\* _get is called.
GetBegin ==
  /\ HttpFree
  /\ calls < MaxCalls
  /\ calls' = calls + 1
  /\ http' = [client |-> "gem", pc |-> "attempt", attempt |-> 0,
              result |-> Null, trace |-> <<>>]
  /\ UNCHANGED <<now, lastRequestTime, notHttpVars>>

\* One attempt of _get.
GetAttempt ==
  /\ http.client = "gem"
  /\ http.pc = "attempt"
  /\ \E outcome \in Outcomes, ra \in RetryAfterValues :
       LET step == GetStep(http.attempt, outcome, ra)
       IN /\ outcome # "429" => ra = 0
          /\ now' = now + FetchDuration(outcome) + step.sleep
          /\ http' = [http EXCEPT
                        !.pc = step.pc, !.attempt = step.attempt,
                        !.result = step.result,
                        !.trace = @ \o <<Fetch(now, outcome)>>
                                    \o (IF step.sleep > 0 THEN <<Sleep(step.sleep)>>
                                        ELSE <<>>)]
  /\ UNCHANGED <<lastRequestTime, calls, notHttpVars>>

\* Between two calls the caller computes for a while.
IdleDelays == {1000, 5000}

BetweenCalls ==
  /\ http.pc \in {"returned", "thrown"}
  /\ \E d \in IdleDelays : now' = now + d
  /\ http' = [http EXCEPT !.pc = "idle", !.attempt = 0, !.result = Null,
                          !.trace = <<>>]
  /\ UNCHANGED <<lastRequestTime, calls, notHttpVars>>

----------------------------------------------------------------------------
(* Strings that the code searches or lower-cases are sequences of characters *)

UpperChars == <<"A","B","C","D","E","F","G","H","I","J","K","L","M",
                "N","O","P","Q","R","S","T","U","V","W","X","Y","Z">>

LowerChars == <<"a","b","c","d","e","f","g","h","i","j","k","l","m",
                "n","o","p","q","r","s","t","u","v","w","x","y","z">>

\* String.prototype.toLowerCase
ToLowerCase(s) ==
  [i \in 1..Len(s) |->
     IF \E k \in 1..26 : UpperChars[k] = s[i]
       THEN LowerChars[CHOOSE k \in 1..26 : UpperChars[k] = s[i]]
       ELSE s[i]]

\* String.prototype.includes
Includes(s, t) ==
  \E i \in 0..(Len(s) - Len(t)) : SubSeq(s, i + 1, i + Len(t)) = t

S_outreach == <<"o","u","t","r","e","a","c","h">>

S_first_outreach == <<"f","i","r","s","t","_","o","u","t","r","e","a","c","h">>

S_follow_up == <<"f","o","l","l","o","w","_","u","p">>

S_followup == <<"f","o","l","l","o","w","u","p">>

S_email_sent == <<"e","m","a","i","l","_","s","e","n","t">>

S_inmail_sent == <<"i","n","m","a","i","l","_","s","e","n","t">>

S_inmail == <<"i","n","m","a","i","l">>

S_email == <<"e","m","a","i","l">>

S_phone_call == <<"p","h","o","n","e","_","c","a","l","l">>

S_text_message == <<"t","e","x","t","_","m","e","s","s","a","g","e">>

S_message_sent == <<"m","e","s","s","a","g","e","_","s","e","n","t">>

S_reply == <<"r","e","p","l","y">>

S_response == <<"r","e","s","p","o","n","s","e">>

S_replied == <<"r","e","p","l","i","e","d">>

S_email_replied == <<"e","m","a","i","l","_","r","e","p","l","i","e","d">>

S_inmail_replied == <<"i","n","m","a","i","l","_","r","e","p","l","i","e","d">>

S_responded == <<"r","e","s","p","o","n","d","e","d">>

S_scheduled == <<"s","c","h","e","d","u","l","e","d">>

S_hired == <<"h","i","r","e","d">>

S_Hired == <<"H","i","r","e","d">>

S_active == <<"a","c","t","i","v","e">>

S_approved == <<"a","p","p","r","o","v","e","d">>

S_sent == <<"s","e","n","t">>

S_accepted == <<"a","c","c","e","p","t","e","d">>

\* GemService._isOutreachEvent
OutreachTypes ==
  <<S_outreach, S_first_outreach, S_follow_up, S_followup, S_email_sent,
    S_inmail_sent, S_inmail, S_email, S_phone_call, S_text_message,
    S_message_sent>>

_isOutreachEvent(eventType) ==
  \E i \in 1..Len(OutreachTypes) : Includes(eventType, OutreachTypes[i])

\* GemService._isResponseEvent
ResponseTypes ==
  <<S_reply, S_response, S_replied, S_email_replied, S_inmail_replied,
    S_responded>>

_isResponseEvent(eventType) ==
  \E i \in 1..Len(ResponseTypes) : Includes(eventType, ResponseTypes[i])

----------------------------------------------------------------------------
(* What a call comes to: a returned value or a thrown error *)

Returned(v) == [threw |-> FALSE, value |-> v]

Thrown(e) == [threw |-> TRUE, error |-> e]

TypeError == [name |-> "TypeError",
              message |-> "Cannot read properties of null", status |-> "none"]

\* map[key] = (map[key] || 0) + 1
Increment(map, key) ==
  [r \in DOMAIN map \cup {key} |-> CountOf(map, r) + (IF r = key THEN 1 ELSE 0)]

\* The pages a provider serves for one list are a non-empty sequence of
\* pages, each a sequence of items; the page after the last is never asked for.
RECURSIVE Flatten(_)
Flatten(pages) ==
  IF pages = <<>> THEN <<>> ELSE Head(pages) \o Flatten(Tail(pages))

----------------------------------------------------------------------------
(* GemService: pagination, fetch wrappers, getMonthlyOutreachData *)

\* A whole _get call against a provider that answers every fetch alike.
RECURSIVE GetRun(_, _)
GetRun(attempt, outcome) ==
  LET step == GetStep(attempt, outcome, 0)
  IN IF step.pc = "attempt" THEN GetRun(step.attempt, outcome) ELSE step

\* The page size both clients ask for.
PageSize == 100

\* What the Gem API serves for one list: a sequence of responses, the i-th
\* answering the request for page i. A response is
\* [outcome, data, pagination]: outcome is what every fetch for that page
\* comes to, data the JSON body (the items when it is an array, NotArray
\* otherwise), pagination the parsed X-Pagination header ([last_page]) or
\* Null. A page past the last is empty and carries no header.
NotArray == <<[notArray |-> TRUE]>>

GemRespond(server, page) ==
  IF page \in 1..Len(server) THEN server[page]
  ELSE [outcome |-> "ok", data |-> <<>>, pagination |-> Null]

\* A list served in `pages` by a provider that answers every fetch alike.
GemServer(pages, outcome) ==
  [i \in 1..Len(pages) |->
     [outcome |-> outcome, data |-> pages[i],
      pagination |-> [last_page |-> Len(pages)]]]

\* A variant of GemLastPage that stops one page early.
GemLastPageEarly(result, page) ==
  \/ result.pagination = Null
  \/ /\ "last_page" \in DOMAIN result.pagination
     /\ page + 1 >= result.pagination.last_page

\* !result.pagination || page >= result.pagination.last_page
\* A header that parses to an object without last_page makes the comparison
\* page >= undefined, which is false.
GemLastPage(result, page) ==
  \/ result.pagination = Null
  \/ /\ "last_page" \in DOMAIN result.pagination
     /\ page >= result.pagination.last_page

\* A variant of PushItems that drops what was gathered before.
PushItemsLast(allItems, data) == IF data # NotArray THEN data ELSE <<>>

\* if (Array.isArray(data)) allItems.push(...data)
PushItems(allItems, data) ==
  IF data # NotArray THEN allItems \o data ELSE allItems

\* _getAllPages from page number `page` on, with allItems gathered so far and
\* the requests sent so far, each [page, page_size].
RECURSIVE _getAllPages(_, _, _, _)
_getAllPages(server, page, allItems, requests) ==
  LET response == GemRespond(server, page)
      sent == Append(requests, [page |-> page, page_size |-> PageSize])
      result == GetRun(0, response.outcome)
  IN IF result.pc = "thrown"
       THEN [threw |-> TRUE, error |-> result.result, requests |-> sent]
     ELSE LET items == PushItems(allItems, response.data)
          IN IF GemLastPage(response, page)
               THEN [threw |-> FALSE, value |-> items, requests |-> sent]
             ELSE _getAllPages(server, page + 1, items, sent)

\* A variant of GemListOf that returns what a failed pagination left.
GemListPartial(server) ==
  LET r == _getAllPages(server, 1, <<>>, <<>>)
  IN IF r.threw
       THEN IF Len(r.requests) > 1
              THEN _getAllPages(SubSeq(server, 1, Len(r.requests) - 1), 1,
                                <<>>, <<>>).value
              ELSE <<>>
     ELSE r.value

\* getProjectCandidates / getCandidateEvents: try { _getAllPages } catch { [] }
GemListOf(server) ==
  LET r == _getAllPages(server, 1, <<>>, <<>>)
  IN IF r.threw THEN <<>> ELSE r.value

GemList(pages, outcome) == GemListOf(GemServer(pages, outcome))

\* The lists (by project or candidate id) whose every request fails although
\* the provider answers the others.
FailingLists(up) == IF "failing" \in DOMAIN up THEN up.failing ELSE {}

\* A variant of ListOutcome in which one failing list fails every list.
ListOutcomeShared(up, id) == IF FailingLists(up) # {} THEN "500" ELSE up.http

\* What the requests for one list come to: each wrapper has its own try, so
\* a failure stays with the list it was raised for.
ListOutcome(up, id) == IF id \in FailingLists(up) THEN "500" ELSE up.http

getProjectCandidates(up, projectId) ==
  GemList(up.candidates[projectId], ListOutcome(up, projectId))

getCandidateEvents(up, candidateId) ==
  GemList(up.events[candidateId], ListOutcome(up, candidateId))

\* A variant of CountEvent that tests the two vocabularies independently.
CountEventBoth(acc, roleName, event, startDate, endDate) ==
  IF acc.threw THEN acc
  ELSE IF event = Null THEN [acc EXCEPT !.threw = TRUE]
  ELSE IF event.at < startDate \/ event.at > endDate THEN acc
  ELSE LET eventType == ToLowerCase(event.type)
           counted == IF _isOutreachEvent(eventType)
                        THEN [acc EXCEPT !.outreach = Increment(@, roleName)]
                        ELSE acc
       IN IF _isResponseEvent(eventType)
            THEN [counted EXCEPT !.responses = Increment(@, roleName)]
            ELSE counted

\* A variant of CountEvent whose range excludes its two bounds.
CountEventExclusive(acc, roleName, event, startDate, endDate) ==
  IF acc.threw THEN acc
  ELSE IF event = Null THEN [acc EXCEPT !.threw = TRUE]
  ELSE IF event.at <= startDate \/ event.at >= endDate THEN acc
  ELSE LET eventType == ToLowerCase(event.type)
       IN IF _isOutreachEvent(eventType)
            THEN [acc EXCEPT !.outreach = Increment(@, roleName)]
          ELSE IF _isResponseEvent(eventType)
            THEN [acc EXCEPT !.responses = Increment(@, roleName)]
          ELSE acc

\* The body of the loop over one candidate's events. acc is
\* [outreach, responses, threw]; an item that is null makes the property read
\* throw a TypeError.
CountEvent(acc, roleName, event, startDate, endDate) ==
  IF acc.threw THEN acc
  ELSE IF event = Null THEN [acc EXCEPT !.threw = TRUE]
  ELSE IF event.at < startDate \/ event.at > endDate THEN acc
  ELSE LET eventType == ToLowerCase(event.type)
       IN IF _isOutreachEvent(eventType)
            THEN [acc EXCEPT !.outreach = Increment(@, roleName)]
          ELSE IF _isResponseEvent(eventType)
            THEN [acc EXCEPT !.responses = Increment(@, roleName)]
          ELSE acc

RECURSIVE CountEvents(_, _, _, _, _)
CountEvents(acc, roleName, events, startDate, endDate) ==
  IF events = <<>> THEN acc
  ELSE CountEvents(CountEvent(acc, roleName, Head(events), startDate, endDate),
                   roleName, Tail(events), startDate, endDate)

\* The loop over one project's candidates.
RECURSIVE CountCandidates(_, _, _, _, _, _)
CountCandidates(acc, roleName, candidates, up, startDate, endDate) ==
  IF candidates = <<>> \/ acc.threw THEN acc
  ELSE IF Head(candidates) = Null THEN [acc EXCEPT !.threw = TRUE]
  ELSE CountCandidates(
         CountEvents(acc, roleName, getCandidateEvents(up, Head(candidates).id),
                     startDate, endDate),
         roleName, Tail(candidates), up, startDate, endDate)

\* The loop over Object.entries(projectToRoleMap): entries is a sequence of
\* [projectId, role]; a role that is empty or "ignore" is skipped. acc.fetched
\* gathers the projects whose candidates were asked for.
RECURSIVE CountProjects(_, _, _, _, _)
CountProjects(acc, entries, up, startDate, endDate) ==
  IF entries = <<>> \/ acc.threw THEN acc
  ELSE LET e == Head(entries)
       IN CountProjects(
            IF e.role = "" \/ e.role = "ignore" THEN acc
            ELSE CountCandidates([acc EXCEPT !.fetched = @ \cup {e.projectId}],
                                 e.role,
                                 getProjectCandidates(up, e.projectId),
                                 up, startDate, endDate),
            Tail(entries), up, startDate, endDate)

\* new Set(Object.values(projectToRoleMap))
GemMappedRoles(projectToRoleMap) ==
  {projectToRoleMap[i].role : i \in 1..Len(projectToRoleMap)}

\* The body of getMonthlyOutreachData up to its return: the seeded maps after
\* the loop over the mapping.
OutreachRun(startDate, endDate, projectToRoleMap, up) ==
  LET mappedRoles == GemMappedRoles(projectToRoleMap)
      seeded == [outreach |-> [r \in mappedRoles |-> 0],
                 responses |-> [r \in mappedRoles |-> 0], threw |-> FALSE,
                 fetched |-> {}]
  IN CountProjects(seeded, projectToRoleMap, up, startDate, endDate)

getMonthlyOutreachData(startDate, endDate, projectToRoleMap, up) ==
  LET acc == OutreachRun(startDate, endDate, projectToRoleMap, up)
  IN IF acc.threw THEN Thrown(TypeError)
     ELSE Returned([outreach |-> acc.outreach, responses |-> acc.responses])

----------------------------------------------------------------------------
(* AshbyService: pagination, fetch wrappers, getMonthlyFunnelData *)

\* A whole _post call against a provider that answers every fetch alike.
RECURSIVE PostRun(_, _)
PostRun(attempt, outcome) ==
  LET step == PostStep(attempt, outcome, 0)
  IN IF step.pc = "attempt" THEN PostRun(step.attempt, outcome) ELSE step

\* What the Ashby API serves for one list: a sequence of responses, the
\* first answering the request without a cursor and the i-th the request
\* with cursor i. A response is
\* [outcome, results, moreDataAvailable, nextCursor]: results is the items
\* or NotArray, nextCursor a cursor or NoCursor.
NoCursor == 0

AshbyRespond(server, cursor) ==
  IF cursor = NoCursor THEN server[1] ELSE server[cursor]

\* A list served in `pages` by a provider that answers every fetch alike.
AshbyServer(pages, outcome) ==
  [i \in 1..Len(pages) |->
     [outcome |-> outcome, results |-> pages[i],
      moreDataAvailable |-> i < Len(pages),
      nextCursor |-> IF i < Len(pages) THEN i + 1 ELSE NoCursor]]

\* A variant of AshbyLastPage that goes on while a cursor is given.
AshbyLastPageByCursor(response) == response.nextCursor = NoCursor

\* !response.moreDataAvailable || !response.nextCursor
AshbyLastPage(response) ==
  ~response.moreDataAvailable \/ response.nextCursor = NoCursor

\* _getAllCursorPages from the request with `cursor` on, with allResults
\* gathered so far and the request bodies sent so far, each [limit, cursor]
\* (cursor NoCursor for a body without one).
\* Reading response.results of the undefined that _post may return throws a
\* TypeError.
RECURSIVE _getAllCursorPages(_, _, _, _)
_getAllCursorPages(server, cursor, allResults, requests) ==
  LET served == AshbyRespond(server, cursor)
      sent == Append(requests, [limit |-> PageSize, cursor |-> cursor])
      response == PostRun(0, served.outcome)
  IN IF response.pc = "thrown"
       THEN [threw |-> TRUE, error |-> response.result, requests |-> sent]
     ELSE IF response.result = Undefined
       THEN [threw |-> TRUE, error |-> TypeError, requests |-> sent]
     ELSE LET results == PushItems(allResults, served.results)
          IN IF AshbyLastPage(served)
               THEN [threw |-> FALSE, value |-> results, requests |-> sent]
             ELSE _getAllCursorPages(server, served.nextCursor, results, sent)

\* getApplications / getOffers: try { _getAllCursorPages } catch { [] }
AshbyListOf(server) ==
  LET r == _getAllCursorPages(server, NoCursor, <<>>, <<>>)
  IN IF r.threw THEN <<>> ELSE r.value

AshbyList(pages, outcome) == AshbyListOf(AshbyServer(pages, outcome))

getApplications(up) == AshbyList(up.applications, up.http)

getOffers(up) == AshbyList(up.offers, up.http)

\* jobToRoleMap[jobId]: entries is a sequence of [jobId, role]; a job that is
\* not mapped reads as the empty role name, which the adapter's falsy test
\* treats as it treats undefined.
RoleOfJob(jobToRoleMap, jobId) ==
  IF \E i \in 1..Len(jobToRoleMap) : jobToRoleMap[i].jobId = jobId
    THEN jobToRoleMap[CHOOSE i \in 1..Len(jobToRoleMap) :
                        jobToRoleMap[i].jobId = jobId].role
    ELSE ""

\* A variant of CountApplication that reads the status before it skips an
\* unclassified or ignored stage.
CountApplicationStatusFirst(acc, app, startDate, endDate, jobToRoleMap, stageClassification) ==
  IF acc.threw THEN acc
  ELSE IF app = Null THEN [acc EXCEPT !.threw = TRUE]
  ELSE IF app.at < startDate \/ app.at > endDate THEN acc
  ELSE LET roleName == RoleOfJob(jobToRoleMap, app.jobId)
           classification == IF app.stageId \in DOMAIN stageClassification
                               THEN stageClassification[app.stageId] ELSE ""
       IN IF roleName = "" \/ roleName = "ignore" THEN acc
          ELSE LET staged ==
                     CASE classification = "screen" ->
                            [acc EXCEPT !.screens = Increment(@, roleName)]
                       [] classification = "final" ->
                            [acc EXCEPT !.finals = Increment(@, roleName)]
                       [] classification = "offer" ->
                            [acc EXCEPT !.offers = Increment(@, roleName)]
                       [] classification = "hired" ->
                            [acc EXCEPT !.hires = Increment(@, roleName)]
                       [] OTHER -> acc
               IN IF ToLowerCase(app.status) = S_hired /\ classification # "hired"
                    THEN [staged EXCEPT !.hires = Increment(@, roleName)]
                    ELSE staged

\* A variant of CountApplication that counts a hired status whatever the
\* stage.
CountApplicationTwice(acc, app, startDate, endDate, jobToRoleMap, stageClassification) ==
  IF acc.threw THEN acc
  ELSE IF app = Null THEN [acc EXCEPT !.threw = TRUE]
  ELSE IF app.at < startDate \/ app.at > endDate THEN acc
  ELSE LET roleName == RoleOfJob(jobToRoleMap, app.jobId)
           classification == IF app.stageId \in DOMAIN stageClassification
                               THEN stageClassification[app.stageId] ELSE ""
       IN IF roleName = "" \/ roleName = "ignore" THEN acc
          ELSE IF classification = "" \/ classification = "ignore" THEN acc
          ELSE LET staged ==
                     CASE classification = "screen" ->
                            [acc EXCEPT !.screens = Increment(@, roleName)]
                       [] classification = "final" ->
                            [acc EXCEPT !.finals = Increment(@, roleName)]
                       [] classification = "offer" ->
                            [acc EXCEPT !.offers = Increment(@, roleName)]
                       [] classification = "hired" ->
                            [acc EXCEPT !.hires = Increment(@, roleName)]
                       [] OTHER -> acc
               IN IF ToLowerCase(app.status) = S_hired
                    THEN [staged EXCEPT !.hires = Increment(@, roleName)]
                    ELSE staged

\* The body of the loop over the applications. acc is
\* [screens, finals, offers, hires, threw].
CountApplication(acc, app, startDate, endDate, jobToRoleMap, stageClassification) ==
  IF acc.threw THEN acc
  ELSE IF app = Null THEN [acc EXCEPT !.threw = TRUE]
  ELSE IF app.at < startDate \/ app.at > endDate THEN acc
  ELSE LET roleName == RoleOfJob(jobToRoleMap, app.jobId)
           classification == IF app.stageId \in DOMAIN stageClassification
                               THEN stageClassification[app.stageId] ELSE ""
       IN IF roleName = "" \/ roleName = "ignore" THEN acc
          ELSE IF classification = "" \/ classification = "ignore" THEN acc
          ELSE LET staged ==
                     CASE classification = "screen" ->
                            [acc EXCEPT !.screens = Increment(@, roleName)]
                       [] classification = "final" ->
                            [acc EXCEPT !.finals = Increment(@, roleName)]
                       [] classification = "offer" ->
                            [acc EXCEPT !.offers = Increment(@, roleName)]
                       [] classification = "hired" ->
                            [acc EXCEPT !.hires = Increment(@, roleName)]
                       [] OTHER -> acc
               IN IF ToLowerCase(app.status) = S_hired /\ classification # "hired"
                    THEN [staged EXCEPT !.hires = Increment(@, roleName)]
                    ELSE staged

RECURSIVE CountApplications(_, _, _, _, _, _)
CountApplications(acc, apps, startDate, endDate, jobToRoleMap, stageClassification) ==
  IF apps = <<>> THEN acc
  ELSE CountApplications(
         CountApplication(acc, Head(apps), startDate, endDate, jobToRoleMap,
                          stageClassification),
         Tail(apps), startDate, endDate, jobToRoleMap, stageClassification)

\* A variant of CountOffer that adds the offer to the count.
CountOfferAdded(acc, offer, startDate, endDate, jobToRoleMap) ==
  IF acc.threw THEN acc
  ELSE IF offer = Null THEN [acc EXCEPT !.threw = TRUE]
  ELSE IF offer.at < startDate \/ offer.at > endDate THEN acc
  ELSE LET roleName == RoleOfJob(jobToRoleMap, offer.jobId)
       IN IF roleName = "" \/ roleName = "ignore" THEN acc
          ELSE IF ToLowerCase(offer.status) \in {S_approved, S_sent, S_accepted}
            THEN [acc EXCEPT !.offers = Increment(@, roleName),
                             !.reconciled = @ \cup {offer}]
          ELSE acc

\* The body of the loop over the offers:
\* offers[role] = Math.max(offers[role] || 0, offers[role] || 0).
\* acc.reconciled gathers the offers for which that statement is reached.
CountOffer(acc, offer, startDate, endDate, jobToRoleMap) ==
  IF acc.threw THEN acc
  ELSE IF offer = Null THEN [acc EXCEPT !.threw = TRUE]
  ELSE IF offer.at < startDate \/ offer.at > endDate THEN acc
  ELSE LET roleName == RoleOfJob(jobToRoleMap, offer.jobId)
       IN IF roleName = "" \/ roleName = "ignore" THEN acc
          ELSE IF ToLowerCase(offer.status) \in {S_approved, S_sent, S_accepted}
            THEN [acc EXCEPT !.offers =
                    [r \in DOMAIN @ \cup {roleName} |->
                       IF r = roleName
                         THEN Max2(CountOf(@, roleName), CountOf(@, roleName))
                         ELSE @[r]],
                             !.reconciled = @ \cup {offer}]
          ELSE acc

RECURSIVE CountOffers(_, _, _, _, _)
CountOffers(acc, offersList, startDate, endDate, jobToRoleMap) ==
  IF offersList = <<>> THEN acc
  ELSE CountOffers(CountOffer(acc, Head(offersList), startDate, endDate,
                              jobToRoleMap),
                   Tail(offersList), startDate, endDate, jobToRoleMap)

\* A variant of AshbyMappedRoles that seeds no role.
AshbyMappedRolesNone(jobToRoleMap) == {}

\* new Set(Object.values(jobToRoleMap).filter(r => r && r !== 'ignore'))
AshbyMappedRoles(jobToRoleMap) ==
  {jobToRoleMap[i].role : i \in 1..Len(jobToRoleMap)} \ {"", "ignore"}

\* The body of getMonthlyFunnelData up to its return: the seeded maps after
\* the two passes.
FunnelRun(startDate, endDate, jobToRoleMap, stageClassification, up) ==
  LET mappedRoles == AshbyMappedRoles(jobToRoleMap)
      zero == [r \in mappedRoles |-> 0]
      seeded == [screens |-> zero, finals |-> zero, offers |-> zero,
                 hires |-> zero, threw |-> FALSE, reconciled |-> {}]
      afterApps == CountApplications(seeded, getApplications(up), startDate,
                                     endDate, jobToRoleMap, stageClassification)
  IN IF afterApps.threw THEN afterApps
     ELSE CountOffers(afterApps, getOffers(up), startDate, endDate,
                      jobToRoleMap)

getMonthlyFunnelData(startDate, endDate, jobToRoleMap, stageClassification, up) ==
  LET acc == FunnelRun(startDate, endDate, jobToRoleMap, stageClassification, up)
  IN IF acc.threw THEN Thrown(TypeError)
     ELSE Returned([screens |-> acc.screens, finals |-> acc.finals,
                    offers |-> acc.offers, hires |-> acc.hires])

----------------------------------------------------------------------------
(* The providers' data, the mappings and the calendar counts of the model *)

\* The month the model runs in: [MonthStart, MonthEnd] holds every instant
\* the clock reaches, so one month key names every cache and record key.
MonthStart == 0

MonthEnd == 2000000000

Event(type, at) == [type |-> type, at |-> at]

Application(jobId, stageId, status, at) ==
  [jobId |-> jobId, stageId |-> stageId, status |-> status, at |-> at]

Offer(jobId, status, at) == [jobId |-> jobId, status |-> status, at |-> at]

GemCandidates ==
  [p1 |-> << <<[id |-> "c1"]>> >>, p2 |-> << <<[id |-> "c2"]>> >>]

GemWorldA ==
  [http |-> "ok", candidates |-> GemCandidates,
   events |-> [c1 |-> << <<Event(S_inmail_sent, 5000), Event(S_reply, 6000)>> >>,
               c2 |-> << <<Event(S_scheduled, 5000),
                           Event(S_email_sent, MonthEnd + 1)>> >>]]

GemWorldB ==
  [http |-> "ok", candidates |-> GemCandidates,
   events |-> [c1 |-> << <<Event(S_inmail_sent, 5000)>>,
                         <<Event(S_follow_up, 7000)>> >>,
               c2 |-> << <<Event(S_message_sent, MonthEnd)>> >>]]

\* A candidates page that holds a null item.
GemWorldMalformed ==
  [GemWorldA EXCEPT !.candidates = [p1 |-> << <<Null>> >>, p2 |-> << <<>> >>]]

GemUpstreams ==
  {GemWorldA, [GemWorldA EXCEPT !.http = "401"], GemWorldMalformed}

AshbyWorldA ==
  [http |-> "ok",
   applications |-> << <<Application("j1", "st_screen", S_active, 5000),
                         Application("j2", "st_final", S_Hired, 6000)>> >>,
   offers |-> << <<Offer("j1", S_sent, 5000)>> >>]

AshbyWorldB ==
  [http |-> "ok",
   applications |-> << <<Application("j1", "st_screen", S_active, 5000),
                         Application("j1", "st_screen", S_active, MonthStart)>>,
                       <<Application("j1", "st_offer", S_active, 7000),
                         Application("j1", "st_hired", S_hired, MonthStart - 1)>> >>,
   offers |-> << <<>> >>]

\* An applications page that holds a null item.
AshbyWorldMalformed == [AshbyWorldA EXCEPT !.applications = << <<Null>> >>]

AshbyUpstreams ==
  {AshbyWorldA, [AshbyWorldA EXCEPT !.http = "403"], AshbyWorldMalformed}

\* ashbyStageClassification: stageId -> 'screen'|'final'|'offer'|'hired'|'ignore'
StageClassification ==
  [st_screen |-> "screen", st_final |-> "final", st_offer |-> "offer",
   st_hired |-> "hired", st_other |-> "ignore"]

\* gemProjectMapping / ashbyJobMapping as the user may have set them.
FullGemMapping ==
  <<[projectId |-> "p1", role |-> "r1"], [projectId |-> "p2", role |-> "r2"]>>

FullAshbyMapping ==
  <<[jobId |-> "j1", role |-> "r1"], [jobId |-> "j2", role |-> "r2"]>>

GemMappings == {<<>>, FullGemMapping}

AshbyMappings == {<<>>, FullAshbyMapping}

\* calendarScreenings as the popup may count them.
CalendarChoices == {EmptyMap, [r \in Roles |-> IF r = "r1" THEN 3 ELSE 1]}

----------------------------------------------------------------------------
(* SyncOrchestrator: state *)

CACHE_TTL_MS == 3600000

MaxSyncs == 2

MaxTicks == 2

MaxManual == 1

MaxChanges == 1

MaxFaults == 1

\* The roles the user logs outreach for by hand.
ManualRoles == {"r1"}

Providers == {"gem", "ashby"}

\* Date.prototype.toISOString keeps the instant to the millisecond, and
\* new Date(iso).getTime() reads it back.
ToISOString(t) == [sec |-> t \div 1000, ms |-> t % 1000]

GetTime(iso) == iso.sec * 1000 + iso.ms

\* status.error holds null or the message, kept in a record so that the two
\* compare.
Message(text) == [message |-> text]

NoStatus == [connected |-> FALSE, lastSync |-> Null, error |-> Null]

\* The locals of a syncAll that is not running, and what the model records
\* about a run: the adapters it called, the cache ages it saw, the providers
\* whose sync failed, whether the store failed, its writes of the record.
SyncAtRest ==
  [pc |-> "idle", calendar |-> Null, existingData |-> Null, gemData |-> Null,
   ashbyData |-> Null, cache |-> Null, mapping |-> <<>>, ret |-> Null,
   startedAt |-> 0, called |-> {}, fresh |-> {}, failed |-> {},
   age |-> [p \in Providers |-> -1], seen |-> [p \in Providers |-> "none"],
   fault |-> FALSE, writes |-> 0, dirty |-> FALSE]

\* No function call of SpecPages, SpecAdapters or SpecFunnel is under way.
CallAtRest ==
  /\ callIn = Null
  /\ callOut = Null

OrchAtRest ==
  /\ store = [gemApiKey |-> FALSE, ashbyApiKey |-> FALSE, authToken |-> FALSE,
              gemProjectMapping |-> <<>>, ashbyJobMapping |-> <<>>,
              gemCache |-> Null, ashbyCache |-> Null, monthlyData |-> Null]
  /\ orch = [gemService |-> FALSE, ashbyService |-> FALSE,
             status |-> [gem |-> NoStatus, ashby |-> NoStatus,
                         calendar |-> [connected |-> FALSE]]]
  /\ sync = SyncAtRest
  /\ upstream = [gem |-> GemWorldA, ashby |-> AshbyWorldA]
  /\ hist = [prev |-> Null, runs |-> 0, ticks |-> 0, manual |-> 0, changes |-> 0,
            faults |-> 0]

----------------------------------------------------------------------------
(* SpecHttp *)

HttpInit ==
  /\ now = StartTime
  /\ HttpAtRest
  /\ OrchAtRest
  /\ mergeIn = Null
  /\ mergeOut = Null
  /\ CallAtRest

HttpNext == PostBegin \/ PostAttempt \/ GetBegin \/ GetAttempt \/ BetweenCalls

SpecHttp == HttpInit /\ [][HttpNext]_vars

----------------------------------------------------------------------------
(* SpecMerge: _mergeData applied to bounded inputs *)

\* The record syncAll passes when nothing is stored yet.
EmptyRecord ==
  [outreach |-> EmptyMap, responses |-> EmptyMap, screens |-> EmptyMap,
   finals |-> EmptyMap, offers |-> EmptyMap, hires |-> EmptyMap]

\* Inputs that vary the three screens sources; the other metrics are empty.
MergeInitScreens ==
  \E sA \in CountMaps(MaxCount) \cup {Null}, sC \in CountMaps(MaxCount) \cup {Null},
     sP \in CountMaps(MaxCount) :
    mergeIn = [gem   |-> Null,
               ashby |-> IF sA = Null THEN Null
                         ELSE [screens |-> sA, finals |-> EmptyMap,
                               offers |-> EmptyMap, hires |-> EmptyMap],
               cal   |-> sC,
               prior |-> [EmptyRecord EXCEPT !.screens = sP]]

\* Inputs that vary the five other metrics: three maps x, y, z are dealt to
\* the adapters and to the prior record so that every metric sees a different
\* (adapter, prior) pair; the prior record is a merged record (all six maps)
\* or one written by the popup (no finals, no offers).
MergeInitWholesale ==
  \E x \in CountMaps(MaxSmall), y \in CountMaps(MaxSmall), z \in CountMaps(MaxSmall),
     gemPresent \in BOOLEAN, ashbyPresent \in BOOLEAN, popupShape \in BOOLEAN :
    mergeIn = [gem   |-> IF gemPresent THEN [outreach |-> x, responses |-> y]
                         ELSE Null,
               ashby |-> IF ashbyPresent
                           THEN [screens |-> EmptyMap, finals |-> x,
                                 offers |-> y, hires |-> z]
                           ELSE Null,
               cal   |-> EmptyMap,
               prior |-> IF popupShape
                           THEN [outreach |-> z, responses |-> x,
                                 screens |-> EmptyMap, hires |-> x]
                           ELSE [outreach |-> z, responses |-> x,
                                 screens |-> EmptyMap, finals |-> y,
                                 offers |-> z, hires |-> x]]

MergeInit ==
  /\ MergeInitScreens \/ MergeInitWholesale
  /\ mergeOut = Null
  /\ now = StartTime
  /\ HttpAtRest
  /\ OrchAtRest
  /\ CallAtRest

Merge ==
  /\ mergeOut = Null
  /\ mergeOut' = _mergeData(mergeIn.gem, mergeIn.ashby, mergeIn.cal, mergeIn.prior)
  /\ UNCHANGED <<mergeIn, notMergeVars>>

\* syncAll's next run: the merged record comes back as the prior record.
MergeAgain ==
  /\ mergeOut # Null
  /\ mergeIn.prior # mergeOut
  /\ mergeIn' = [mergeIn EXCEPT !.prior = mergeOut]
  /\ mergeOut' = Null
  /\ UNCHANGED notMergeVars

MergeNext == Merge \/ MergeAgain

SpecMerge == MergeInit /\ [][MergeNext]_vars

----------------------------------------------------------------------------
(* SyncOrchestrator: initialize, syncAll, _syncGem, _syncAshby *)

\* Date.now() - new Date(cache.lastSync).getTime()
CacheAge(cache, t) == t - GetTime(cache.lastSync)

\* A variant of IsFresh that takes an entry of exactly the TTL's age as fresh.
IsFreshInclusive(cache, t) ==
  /\ cache # Null
  /\ cache.lastSync # Null
  /\ CacheAge(cache, t) <= CACHE_TTL_MS

\* cache && cache.lastSync && age < CACHE_TTL_MS
IsFresh(cache, t) ==
  /\ cache # Null
  /\ cache.lastSync # Null
  /\ CacheAge(cache, t) < CACHE_TTL_MS

\* A variant of Fallback that never serves the stale payload.
FallbackNone(cache) == Null

\* if (cache?.data) return cache.data; return null;
Fallback(cache) == IF cache # Null /\ cache.data # Null THEN cache.data ELSE Null

\* A variant of Catch that lets the error out of syncAll.
CatchRethrows(s, field, cache) == [s EXCEPT !.pc = "thrown"]

\* The catch block of _syncGem and of _syncAshby, on the locals of the sync:
\* the provider's data is the cache's payload, or null.
Catch(s, field, cache) == [s EXCEPT ![field] = Fallback(cache)]

StorageError == Message("storage failure")

WithStatus(p, field, value) == [orch EXCEPT !.status[p][field] = value]

\* A read or a write of the store succeeds or rejects; the model lets the
\* store reject MaxFaults times.
StoreOutcomes(h) == IF h.faults < MaxFaults THEN BOOLEAN ELSE {TRUE}

CountFault(h, s, t) ==
  IF t.fault /\ ~s.fault THEN [h EXCEPT !.faults = @ + 1] ELSE h

\* A variant of Initialized that keeps an adapter whose key is gone.
InitializedNoTeardown(st, o) ==
  [gemService |-> st.gemApiKey \/ o.gemService,
   ashbyService |-> st.ashbyApiKey \/ o.ashbyService,
   status |->
     [gem |-> IF st.gemApiKey THEN [o.status.gem EXCEPT !.connected = TRUE]
              ELSE NoStatus,
      ashby |-> IF st.ashbyApiKey THEN [o.status.ashby EXCEPT !.connected = TRUE]
                ELSE NoStatus,
      calendar |-> [connected |-> st.authToken]]]

\* The orchestrator o after initialize() over the store st: an adapter is
\* there (TRUE) or null (FALSE).
Initialized(st, o) ==
  [gemService |-> st.gemApiKey,
   ashbyService |-> st.ashbyApiKey,
   status |->
     [gem |-> IF st.gemApiKey THEN [o.status.gem EXCEPT !.connected = TRUE]
              ELSE NoStatus,
      ashby |-> IF st.ashbyApiKey THEN [o.status.ashby EXCEPT !.connected = TRUE]
                ELSE NoStatus,
      calendar |-> [connected |-> st.authToken]]]

initialize ==
  /\ sync.pc \in {"idle", "done", "thrown"}
  /\ orch' = Initialized(store, orch)
  /\ orch' # orch
  /\ sync' = [sync EXCEPT !.dirty = TRUE]
  /\ UNCHANGED <<store, upstream, hist, now, notOrchVars>>

\* What the model keeps of a finished run for the next one to compare with.
RunSummary(s) ==
  [calendar |-> s.calendar, ret |-> s.ret, startedAt |-> s.startedAt,
   fresh |-> s.fresh, dirty |-> s.dirty, fault |-> s.fault]

\* syncAll up to its first await: the read of the stored monthly record.
SyncAllStart ==
  /\ sync.pc \in {"idle", "done", "thrown"}
  /\ hist.runs < MaxSyncs
  /\ \E calendarScreenings \in CalendarChoices, readOk \in StoreOutcomes(hist) :
       sync' = [SyncAtRest EXCEPT
                  !.pc = IF readOk THEN "gem" ELSE "thrown",
                  !.calendar = calendarScreenings,
                  !.existingData =
                     IF ~readOk THEN Null
                     ELSE IF store.monthlyData # Null THEN store.monthlyData
                     ELSE EmptyRecord,
                  !.startedAt = now,
                  !.fault = ~readOk]
  /\ hist' = [hist EXCEPT !.runs = @ + 1,
                          !.prev = IF sync.pc = "done" THEN RunSummary(sync)
                                   ELSE Null,
                          !.faults = IF sync'.fault THEN @ + 1 ELSE @]
  /\ UNCHANGED <<store, orch, upstream, now, notOrchVars>>

\* A variant of NotConfigured that never skips the adapter.
NotConfiguredNever(mapping) == FALSE

\* Object.keys(mapping).length === 0
NotConfigured(mapping) == Len(mapping) = 0

\* _syncGem up to the adapter call: the cache check, the mapping read and the
\* not-configured short circuit.
SyncGemCheck ==
  /\ sync.pc = "gem"
  /\ \E readOk \in StoreOutcomes(hist), mapOk \in StoreOutcomes(hist) :
       LET cache == store.gemCache
           projectMapping == store.gemProjectMapping
           age == IF cache # Null THEN CacheAge(cache, now) ELSE -1
       IN IF ~orch.gemService
            THEN /\ readOk /\ mapOk
                 /\ sync' = [sync EXCEPT !.pc = "ashby"]
                 /\ orch' = orch
          ELSE IF ~readOk
            THEN /\ mapOk
                 /\ sync' = [sync EXCEPT !.pc = "thrown", !.fault = TRUE]
                 /\ orch' = orch
          ELSE IF IsFresh(cache, now)
            THEN /\ mapOk
                 /\ orch' = WithStatus("gem", "lastSync", cache.lastSync)
                 /\ sync' = [sync EXCEPT !.pc = "ashby", !.gemData = cache.data,
                                         !.fresh = @ \cup {"gem"},
                                         !.age["gem"] = age]
          ELSE IF ~mapOk
            THEN /\ orch' = WithStatus("gem", "error", StorageError)
                 /\ sync' = Catch([sync EXCEPT !.pc = "ashby", !.fault = TRUE,
                                                !.age["gem"] = age],
                                  "gemData", cache)
          ELSE IF NotConfigured(projectMapping)
            THEN /\ orch' = WithStatus("gem", "error",
                                   Message("No projects mapped to roles"))
                 /\ sync' = [sync EXCEPT !.pc = "ashby", !.gemData = Null,
                                         !.failed = @ \cup {"gem"},
                                         !.age["gem"] = age]
          ELSE /\ orch' = orch
               /\ sync' = [sync EXCEPT !.pc = "gemFetch", !.cache = cache,
                                       !.mapping = projectMapping,
                                       !.age["gem"] = age]
  /\ hist' = CountFault(hist, sync, sync')
  /\ UNCHANGED <<store, upstream, now, notOrchVars>>

\* _syncGem from the adapter's answer on: cache write and status, or the
\* catch block.
SyncGemFetched ==
  /\ sync.pc = "gemFetch"
  /\ \E writeOk \in StoreOutcomes(hist) :
       LET r == getMonthlyOutreachData(MonthStart, MonthEnd, sync.mapping,
                                       upstream.gem)
           iso == ToISOString(now)
           base == [sync EXCEPT !.pc = "ashby", !.cache = Null, !.mapping = <<>>,
                                !.called = @ \cup {"gem"},
                                !.seen["gem"] = upstream.gem.http]
       IN IF r.threw
            THEN /\ writeOk
                 /\ store' = store
                 /\ orch' = WithStatus("gem", "error", Message(r.error.message))
                 /\ sync' = Catch([base EXCEPT !.failed = @ \cup {"gem"}],
                                  "gemData", sync.cache)
          ELSE IF ~writeOk
            THEN /\ store' = store
                 /\ orch' = WithStatus("gem", "error", StorageError)
                 /\ sync' = Catch([base EXCEPT !.fault = TRUE], "gemData",
                                  sync.cache)
          ELSE /\ store' = [store EXCEPT !.gemCache =
                                           [lastSync |-> iso, data |-> r.value]]
               /\ orch' = [orch EXCEPT !.status.gem.lastSync = iso,
                                       !.status.gem.error = Null]
               /\ sync' = [base EXCEPT !.gemData = r.value]
  /\ hist' = CountFault(hist, sync, sync')
  /\ UNCHANGED <<upstream, now, notOrchVars>>

\* _syncAshby up to the adapter call.
SyncAshbyCheck ==
  /\ sync.pc = "ashby"
  /\ \E readOk \in StoreOutcomes(hist), mapOk \in StoreOutcomes(hist) :
       LET cache == store.ashbyCache
           jobMapping == store.ashbyJobMapping
           age == IF cache # Null THEN CacheAge(cache, now) ELSE -1
       IN IF ~orch.ashbyService
            THEN /\ readOk /\ mapOk
                 /\ sync' = [sync EXCEPT !.pc = "merge"]
                 /\ orch' = orch
          ELSE IF ~readOk
            THEN /\ mapOk
                 /\ sync' = [sync EXCEPT !.pc = "thrown", !.fault = TRUE]
                 /\ orch' = orch
          ELSE IF IsFresh(cache, now)
            THEN /\ mapOk
                 /\ orch' = WithStatus("ashby", "lastSync", cache.lastSync)
                 /\ sync' = [sync EXCEPT !.pc = "merge", !.ashbyData = cache.data,
                                         !.fresh = @ \cup {"ashby"},
                                         !.age["ashby"] = age]
          ELSE IF ~mapOk
            THEN /\ orch' = WithStatus("ashby", "error", StorageError)
                 /\ sync' = Catch([sync EXCEPT !.pc = "merge", !.fault = TRUE,
                                                !.age["ashby"] = age],
                                  "ashbyData", cache)
          ELSE IF NotConfigured(jobMapping)
            THEN /\ orch' = WithStatus("ashby", "error",
                                   Message("No jobs mapped to roles"))
                 /\ sync' = [sync EXCEPT !.pc = "merge", !.ashbyData = Null,
                                         !.failed = @ \cup {"ashby"},
                                         !.age["ashby"] = age]
          ELSE /\ orch' = orch
               /\ sync' = [sync EXCEPT !.pc = "ashbyFetch", !.cache = cache,
                                       !.mapping = jobMapping,
                                       !.age["ashby"] = age]
  /\ hist' = CountFault(hist, sync, sync')
  /\ UNCHANGED <<store, upstream, now, notOrchVars>>

\* _syncAshby from the adapter's answer on.
SyncAshbyFetched ==
  /\ sync.pc = "ashbyFetch"
  /\ \E writeOk \in StoreOutcomes(hist) :
       LET r == getMonthlyFunnelData(MonthStart, MonthEnd, sync.mapping,
                                     StageClassification, upstream.ashby)
           iso == ToISOString(now)
           base == [sync EXCEPT !.pc = "merge", !.cache = Null, !.mapping = <<>>,
                                !.called = @ \cup {"ashby"},
                                !.seen["ashby"] = upstream.ashby.http]
       IN IF r.threw
            THEN /\ writeOk
                 /\ store' = store
                 /\ orch' = WithStatus("ashby", "error", Message(r.error.message))
                 /\ sync' = Catch([base EXCEPT !.failed = @ \cup {"ashby"}],
                                  "ashbyData", sync.cache)
          ELSE IF ~writeOk
            THEN /\ store' = store
                 /\ orch' = WithStatus("ashby", "error", StorageError)
                 /\ sync' = Catch([base EXCEPT !.fault = TRUE], "ashbyData",
                                  sync.cache)
          ELSE /\ store' = [store EXCEPT !.ashbyCache =
                                           [lastSync |-> iso, data |-> r.value]]
               /\ orch' = [orch EXCEPT !.status.ashby.lastSync = iso,
                                       !.status.ashby.error = Null]
               /\ sync' = [base EXCEPT !.ashbyData = r.value]
  /\ hist' = CountFault(hist, sync, sync')
  /\ UNCHANGED <<upstream, now, notOrchVars>>

\* A variant of Finished in which the record is stored even when the write
\* is rejected and syncAll throws.
FinishedEarlyWrite(s, st, writeOk) ==
  LET merged == _mergeData(s.gemData, s.ashbyData, s.calendar, s.existingData)
  IN [store |-> [st EXCEPT !.monthlyData = merged],
      sync |-> IF writeOk
                 THEN [s EXCEPT !.pc = "done", !.ret = merged, !.writes = @ + 1]
                 ELSE [s EXCEPT !.pc = "thrown", !.fault = TRUE,
                                !.writes = @ + 1]]

\* What syncAll's last statements leave: the merged record stored and
\* returned, or, when the store rejects the write, nothing stored and the
\* error thrown.
Finished(s, st, writeOk) ==
  LET merged == _mergeData(s.gemData, s.ashbyData, s.calendar, s.existingData)
  IN IF writeOk
       THEN [store |-> [st EXCEPT !.monthlyData = merged],
             sync |-> [s EXCEPT !.pc = "done", !.ret = merged, !.writes = @ + 1]]
       ELSE [store |-> st,
             sync |-> [s EXCEPT !.pc = "thrown", !.fault = TRUE]]

\* syncAll's merge, its write of the monthly record and its return.
SyncAllFinish ==
  /\ sync.pc = "merge"
  /\ \E writeOk \in StoreOutcomes(hist) :
       /\ store' = Finished(sync, store, writeOk).store
       /\ sync' = Finished(sync, store, writeOk).sync
  /\ hist' = CountFault(hist, sync, sync')
  /\ UNCHANGED <<orch, upstream, now, notOrchVars>>

----------------------------------------------------------------------------
(* What surrounds the orchestrator *)

\* The model follows what surrounds the orchestrator for as long as a sync is
\* under way or still to come.
SyncAhead == hist.runs < MaxSyncs \/ sync.pc \notin {"idle", "done", "thrown"}

\* The clock moves on between two syncs and while an adapter's requests are
\* awaited; the reads and writes of the store take no time.
TickSizes == {1, CACHE_TTL_MS - 1}

Tick ==
  /\ SyncAhead
  /\ sync.pc \in {"idle", "done", "thrown", "gemFetch", "ashbyFetch"}
  /\ hist.ticks < MaxTicks
  /\ \E d \in TickSizes : now' = now + d
  /\ hist' = [hist EXCEPT !.ticks = @ + 1]
  /\ UNCHANGED <<store, orch, sync, upstream, notOrchVars>>

\* A provider's data or its answer to every request changes. An adapter
\* reads its provider in one step of the model, so a change while a sync is
\* under way acts as a change just before or just after that sync.
ProviderChange ==
  /\ SyncAhead
  /\ sync.pc \in {"idle", "done", "thrown"}
  /\ hist.changes < MaxChanges
  /\ \/ \E up \in GemUpstreams \ {upstream.gem} :
          upstream' = [upstream EXCEPT !.gem = up]
     \/ \E up \in AshbyUpstreams \ {upstream.ashby} :
          upstream' = [upstream EXCEPT !.ashby = up]
  /\ sync' = [sync EXCEPT !.dirty = TRUE]
  /\ hist' = [hist EXCEPT !.changes = @ + 1]
  /\ UNCHANGED <<store, orch, now, notOrchVars>>

\* The user edits the project or job mappings, between two syncs.
Configure ==
  /\ SyncAhead
  /\ sync.pc \in {"idle", "done", "thrown"}
  /\ hist.changes < MaxChanges
  /\ \/ \E g \in GemMappings \ {store.gemProjectMapping} :
          store' = [store EXCEPT !.gemProjectMapping = g]
     \/ \E a \in AshbyMappings \ {store.ashbyJobMapping} :
          store' = [store EXCEPT !.ashbyJobMapping = a]
  /\ sync' = [sync EXCEPT !.dirty = TRUE]
  /\ hist' = [hist EXCEPT !.changes = @ + 1]
  /\ UNCHANGED <<orch, upstream, now, notOrchVars>>

\* PopupApp.saveOutreachData: one outreach logged by hand for a role, between
\* two syncs or while a sync awaits an adapter.
saveOutreachData ==
  /\ SyncAhead
  /\ sync.pc \in {"idle", "done", "thrown", "gemFetch", "ashbyFetch"}
  /\ hist.manual < MaxManual
  /\ \E role \in ManualRoles :
       LET monthlyData == IF store.monthlyData # Null THEN store.monthlyData
                          ELSE [outreach |-> EmptyMap, responses |-> EmptyMap,
                                screens |-> EmptyMap, hires |-> EmptyMap]
       IN store' = [store EXCEPT !.monthlyData =
                      [monthlyData EXCEPT !.outreach = Increment(@, role)]]
  /\ hist' = [hist EXCEPT !.manual = @ + 1]
  /\ sync' = [sync EXCEPT !.dirty = TRUE]
  /\ UNCHANGED <<orch, upstream, now, notOrchVars>>

\* The orchestrator is constructed anew each time the popup opens, over a
\* store that outlives it: a provider's cache is absent, or it is what a sync
\* of an earlier session wrote at StartTime, when the provider served its
\* other data set.
EarlierGemCache ==
  [lastSync |-> ToISOString(StartTime),
   data |-> getMonthlyOutreachData(MonthStart, MonthEnd, FullGemMapping,
                                   GemWorldB).value]

EarlierAshbyCache ==
  [lastSync |-> ToISOString(StartTime),
   data |-> getMonthlyFunnelData(MonthStart, MonthEnd, FullAshbyMapping,
                                 StageClassification, AshbyWorldB).value]

OrchInit ==
  /\ \E gemKey \in BOOLEAN, ashbyKey \in BOOLEAN, cached \in BOOLEAN :
       LET gemCache == IF cached THEN EarlierGemCache ELSE Null
           ashbyCache == IF cached THEN EarlierAshbyCache ELSE Null
       IN store = [gemApiKey |-> gemKey, ashbyApiKey |-> ashbyKey,
                authToken |-> TRUE,
                gemProjectMapping |-> FullGemMapping,
                ashbyJobMapping |-> FullAshbyMapping,
                gemCache |-> gemCache, ashbyCache |-> ashbyCache,
                monthlyData |-> Null]
  /\ orch = [gemService |-> FALSE, ashbyService |-> FALSE,
             status |-> [gem |-> NoStatus, ashby |-> NoStatus,
                         calendar |-> [connected |-> FALSE]]]
  /\ sync = SyncAtRest
  /\ upstream = [gem |-> GemWorldA, ashby |-> AshbyWorldA]
  /\ hist = [prev |-> Null, runs |-> 0, ticks |-> 0, manual |-> 0, changes |-> 0,
            faults |-> 0]
  /\ now = StartTime
  /\ HttpAtRest
  /\ mergeIn = Null
  /\ mergeOut = Null
  /\ CallAtRest

Init == OrchInit

Next ==
  \/ initialize
  \/ SyncAllStart
  \/ SyncGemCheck
  \/ SyncGemFetched
  \/ SyncAshbyCheck
  \/ SyncAshbyFetched
  \/ SyncAllFinish
  \/ Tick
  \/ ProviderChange
  \/ Configure
  \/ saveOutreachData

Spec == Init /\ [][Next]_vars

----------------------------------------------------------------------------
(* C1 *)

----------------------------------------------------------------------------
(* C2 *)

\* The prior record's map for a metric, empty when the record has none.
PriorMap(metric) ==
  IF metric \in DOMAIN mergeIn.prior THEN mergeIn.prior[metric] ELSE EmptyMap

----------------------------------------------------------------------------
(* C9, C10: the retry loops *)

FetchesOf(trace) == SelectSeq(trace, LAMBDA e : e.ev = "fetch")

HttpDone == http.pc \in {"returned", "thrown"}

\* C9: in AshbyService._post a fetch answered 401 or 403 is the call's last
\* step: nothing follows it in the call (no backoff sleep, no other fetch) and
\* the call has failed with the auth error carrying that status.
C9_AuthSurfacedImmediately ==
  http.client = "ashby" =>
    \A i \in 1..Len(http.trace) :
      (http.trace[i].ev = "fetch" /\ http.trace[i].outcome \in {"401", "403"}) =>
        /\ i = Len(http.trace)
        /\ http.pc = "thrown"
        /\ http.result.status = http.trace[i].outcome

\* C10: a finished request whose three attempts were all answered 429 has
\* failed with an error; it has not returned a value to its caller. For both
\* clients.
C10_ThrottledOutFails ==
  (HttpDone /\ Len(FetchesOf(http.trace)) = 3
     /\ \A i \in 1..3 : FetchesOf(http.trace)[i].outcome = "429") =>
    /\ http.pc = "thrown"
    /\ http.result.name = "Error"

----------------------------------------------------------------------------
(* C3 - C8: syncAll *)

DataOf(s, p) == IF p = "gem" THEN s.gemData ELSE s.ashbyData

CacheOf(st, p) == IF p = "gem" THEN st.gemCache ELSE st.ashbyCache

MappingOf(st, p) ==
  IF p = "gem" THEN st.gemProjectMapping ELSE st.ashbyJobMapping

\* The positions of a running syncAll that lie after a provider's sync.
PastSync(p) ==
  IF p = "gem" THEN {"ashby", "ashbyFetch", "merge"} ELSE {"merge"}

\* A second syncAll has returned; the first returned before it, and from the
\* first call's start to this moment nothing around the two calls changed (no
\* provider data, no mapping, no manual entry, no service set up) and the
\* store rejected nothing; the calendar counts passed are the same, and the
\* second call started less than the cache TTL after the first.
TwoCallsInSuccession ==
  /\ sync.pc = "done"
  /\ hist.prev # Null
  /\ ~hist.prev.dirty /\ ~sync.dirty
  /\ ~hist.prev.fault /\ ~sync.fault
  /\ sync.calendar = hist.prev.calendar
  /\ sync.startedAt - hist.prev.startedAt < CACHE_TTL_MS

\* C3 as stated: two calls in succession within the TTL return and persist
\* the same merged record, the _sources map included.
C3_TwoCallsSameRecord ==
  TwoCallsInSuccession =>
    /\ sync.ret = hist.prev.ret
    /\ store.monthlyData = sync.ret

\* C3, amended: two calls in succession within the TTL return and persist the
\* same merged record, the _sources map included, provided every provider
\* cache entry the first call served as fresh is still fresh when the second
\* call checks it. The second call's prior record is the first call's
\* persisted record.
C3_TwoCallsSameRecordWhileCacheFresh ==
  (TwoCallsInSuccession /\ hist.prev.fresh \subseteq sync.fresh) =>
    /\ sync.ret = hist.prev.ret
    /\ store.monthlyData = sync.ret
    /\ sync.existingData = hist.prev.ret

\* Two calls in succession, the first fetching from both providers and the
\* second served by the caches the first wrote, with provider and calendar
\* counts in the merged record.
C3_Witness ==
  /\ TwoCallsInSuccession
  /\ hist.prev.fresh = {}
  /\ sync.fresh = {"gem", "ashby"}
  /\ sync.ret._sources.outreach = "gem"
  /\ sync.ret._sources.screens = "ashby+calendar"
  /\ sync.ret.screens["r1"] = 3
  /\ sync.ret = hist.prev.ret

\* The provider's sync ran in the syncAll under way, found a cache entry and
\* the store rejected nothing.
CacheChecked(p) ==
  /\ sync.pc \in PastSync(p)
  /\ sync.age[p] >= 0
  /\ ~sync.fault

\* C4 as stated: a cache entry younger than the TTL is returned without a
\* call to the adapter; one whose age is the TTL or more is expired and the
\* adapter is called.
C4_TtlBoundary ==
  \A p \in Providers :
    CacheChecked(p) =>
      /\ sync.age[p] < CACHE_TTL_MS =>
           /\ p \in sync.fresh
           /\ p \notin sync.called
           /\ DataOf(sync, p) = CacheOf(store, p).data
      /\ sync.age[p] >= CACHE_TTL_MS =>
           /\ p \notin sync.fresh
           /\ p \in sync.called

\* C4, amended: a cache entry younger than the TTL is returned without a call
\* to the adapter; one whose age is the TTL or more is expired, and the
\* adapter is called if the provider's mapping has an entry; with an empty
\* mapping the sync returns no data and calls nothing.
C4_TtlBoundaryWhenMapped ==
  \A p \in Providers :
    CacheChecked(p) =>
      /\ sync.age[p] < CACHE_TTL_MS =>
           /\ p \in sync.fresh
           /\ p \notin sync.called
           /\ DataOf(sync, p) = CacheOf(store, p).data
      /\ sync.age[p] >= CACHE_TTL_MS =>
           /\ p \notin sync.fresh
           /\ p \in sync.called <=> MappingOf(store, p) # <<>>
           /\ MappingOf(store, p) = <<>> => DataOf(sync, p) = Null

\* The Gem cache entry is exactly one TTL old at its check and the adapter
\* was called.
C4_Witness ==
  /\ CacheChecked("gem")
  /\ sync.age["gem"] = CACHE_TTL_MS
  /\ "gem" \in sync.called

\* C5: when the adapter call throws, the provider's sync returns the payload
\* of the cache entry if there is one and null otherwise, the error's message
\* is in the provider's status and the cache entry is as it was; when the
\* adapter call succeeds, the cache entry is the new payload stamped with the
\* present time and the status error is null. (The store rejecting nothing.)
C5_FallbackOrOverwrite ==
  [][\A p \in Providers :
       (p \in sync'.called \ sync.called /\ ~sync'.fault) =>
         IF p \in sync'.failed
           THEN /\ CacheOf(store', p) = CacheOf(store, p)
                /\ DataOf(sync', p) = IF CacheOf(store, p) # Null
                                        THEN CacheOf(store, p).data ELSE Null
                /\ orch'.status[p].error # Null
                /\ orch'.status[p].error.message = TypeError.message
           ELSE /\ CacheOf(store', p).data = DataOf(sync', p)
                /\ GetTime(CacheOf(store', p).lastSync) = now
                /\ DataOf(sync', p) # Null
                /\ orch'.status[p].error = Null]_vars

\* The Ashby adapter threw over an expired cache entry: the sync's data is
\* that entry's payload and the status holds the error.
C5_Witness ==
  /\ sync.pc = "merge"
  /\ "ashby" \in sync.called
  /\ "ashby" \in sync.failed
  /\ ~sync.fault
  /\ sync.age["ashby"] >= CACHE_TTL_MS
  /\ sync.ashbyData = EarlierAshbyCache.data
  /\ orch.status.ashby.error # Null

\* C6: after a provider's sync whose HTTP calls were answered 401 or 403,
\* the provider's status shows the failure: its error is set or it is no
\* longer connected.
C6_AuthFailureInStatus ==
  \A p \in Providers :
    (sync.pc \in PastSync(p) /\ p \in sync.called /\ ~sync.fault
       /\ sync.seen[p] \in {"401", "403"}) =>
      \/ orch.status[p].error # Null
      \/ ~orch.status[p].connected

\* C7: a provider's failed sync (its adapter threw, or nothing is mapped)
\* does not make syncAll throw: syncAll throws only when the store rejects a
\* read or a write. When syncAll returns after a provider's sync failed, the
\* other provider's data is in the returned record whole, no screens count is
\* below the calendar's or the prior record's, and the record was written
\* once and is what the store holds.
C7_FailureDoesNotBlock ==
  /\ sync.pc = "thrown" => sync.fault
  /\ (sync.pc = "done" /\ sync.failed # {}) =>
       /\ sync.writes = 1
       /\ ~sync.dirty => store.monthlyData = sync.ret
       /\ sync.gemData # Null =>
            /\ sync.ret.outreach = sync.gemData.outreach
            /\ sync.ret.responses = sync.gemData.responses
       /\ sync.ashbyData # Null =>
            /\ sync.ret.finals = sync.ashbyData.finals
            /\ sync.ret.offers = sync.ashbyData.offers
            /\ sync.ret.hires = sync.ashbyData.hires
            /\ \A r \in DOMAIN sync.ashbyData.screens :
                 sync.ret.screens[r] >= sync.ashbyData.screens[r]
       /\ \A r \in DOMAIN sync.calendar :
            sync.ret.screens[r] >= sync.calendar[r]
       /\ \A r \in DOMAIN sync.existingData.screens :
            sync.ret.screens[r] >= sync.existingData.screens[r]

\* The Gem adapter threw with no cache entry to fall back on, the Ashby
\* adapter was called and returned, and syncAll returned a record with
\* Ashby's and the calendar's counts.
C7_Witness ==
  /\ sync.pc = "done"
  /\ sync.failed = {"gem"}
  /\ sync.gemData = Null
  /\ "ashby" \in sync.called
  /\ sync.ret._sources.finals = "ashby"
  /\ sync.ret._sources.outreach = "manual"
  /\ sync.ret._sources.screens = "ashby+calendar"
  /\ store.monthlyData = sync.ret

\* C8: the stored monthly record changes only in the step in which syncAll
\* returns, where it becomes the returned record, or when the user logs an
\* entry by hand: a syncAll writes it at most once, last, and a syncAll that
\* throws leaves it as it was.
C8_RecordWrittenOnceAtEnd ==
  [][store'.monthlyData # store.monthlyData =>
       \/ hist'.manual # hist.manual
       \/ /\ sync.pc = "merge"
          /\ sync'.pc = "done"
          /\ sync.writes = 0
          /\ store'.monthlyData = sync'.ret]_vars

\* A second syncAll threw after its Gem sync, and the store still holds the
\* record the first one wrote.
C8_Witness ==
  /\ sync.pc = "thrown"
  /\ sync.gemData # Null
  /\ hist.prev # Null
  /\ ~sync.dirty
  /\ store.monthlyData = hist.prev.ret
  /\ sync.ret = Null

----------------------------------------------------------------------------
(* C11 - C13: attempts, retries and spacing of the HTTP clients *)

\* The indices of the fetches in the trace of the call in progress.
FetchIndices == {i \in 1..Len(http.trace) : http.trace[i].ev = "fetch"}

\* How many fetches the trace holds up to and including index i.
FetchesUpTo(i) == Cardinality({j \in FetchIndices : j <= i})

\* C11: an attempt that timed out or failed on the network, when it is not
\* the call's third, is followed by the client's backoff sleep, and the call
\* has not failed with it: the call goes on to another attempt. For both
\* clients.
C11_FailedAttemptIsRetried ==
  \A i \in FetchIndices :
    (http.trace[i].outcome \in {"abort", "network"} /\ FetchesUpTo(i) < 3) =>
      /\ i < Len(http.trace)
      /\ http.trace[i + 1].ev = "sleep"
      /\ (i + 1 = Len(http.trace)) => http.pc = "attempt"

\* C12: a call to _post or to _get makes at most three fetches.
C12_AtMostThreeAttempts == Cardinality(FetchIndices) <= 3

\* A finished call of each client that made three fetches, the first two
\* answered 429.
C12_Witness ==
  /\ HttpDone
  /\ Cardinality(FetchIndices) = 3
  /\ FetchesOf(http.trace)[1].outcome = "429"
  /\ FetchesOf(http.trace)[2].outcome = "429"
  /\ FetchesOf(http.trace)[3].outcome = "ok"

\* C13: two consecutive fetches of one AshbyService call start at least
\* minRequestInterval apart, whatever lay between them.
C13_AttemptsSpaced ==
  http.client = "ashby" =>
    \A i \in 1..(Len(FetchesOf(http.trace)) - 1) :
      FetchesOf(http.trace)[i + 1].at - FetchesOf(http.trace)[i].at
        >= minRequestInterval

----------------------------------------------------------------------------
(* SpecPages: _getAllPages and _getAllCursorPages against bounded servers *)

\* The most pages a server of the model holds.
MaxPages == 3

\* What every fetch for one page comes to.
PageOutcomes == {"ok", "500", "429"}

\* The two items of page i.
PageItems(i) == <<[page |-> i, item |-> 1], [page |-> i, item |-> 2]>>

\* The JSON body of page i: no items, its two items, or something that is
\* not an array.
PageBody(i, kind) ==
  CASE kind = "empty" -> <<>>
    [] kind = "items" -> PageItems(i)
    [] OTHER -> NotArray

BodyKinds == {"empty", "items", "notArray"}

\* A parsed X-Pagination header that holds no last_page.
NoLastPage == [per_page |-> PageSize]

\* The parsed X-Pagination header of a Gem response: none, last_page, or an
\* object without last_page.
GemPaginations ==
  {Null, NoLastPage} \cup {[last_page |-> n] : n \in 0..MaxPages}

\* The servers of n pages the Gem client is run against: every page fails
\* or carries a body and a header of its own.
GemServers(n) ==
  {[i \in 1..n |->
      IF f[i].outcome = "ok"
        THEN [outcome |-> "ok", data |-> PageBody(i, f[i].kind),
              pagination |-> f[i].pagination]
        ELSE [outcome |-> f[i].outcome, data |-> <<>>, pagination |-> Null]] :
     f \in [1..n -> [outcome : PageOutcomes, kind : BodyKinds,
                     pagination : GemPaginations]]}

\* The servers of n pages the Ashby client is run against: the cursor a page
\* hands out names a later page or is absent.
AshbyServers(n) ==
  {[i \in 1..n |->
      IF f[i].outcome = "ok"
        THEN [outcome |-> "ok", results |-> PageBody(i, f[i].kind),
              moreDataAvailable |-> f[i].more,
              nextCursor |-> IF i + f[i].skip <= n /\ f[i].skip > 0
                               THEN i + f[i].skip ELSE NoCursor]
        ELSE [outcome |-> f[i].outcome, results |-> <<>>,
              moreDataAvailable |-> FALSE, nextCursor |-> NoCursor]] :
     f \in [1..n -> [outcome : PageOutcomes, kind : BodyKinds,
                     more : BOOLEAN, skip : 0..2]]}

PagesInit ==
  /\ \E n \in 1..MaxPages :
       \/ \E server \in GemServers(n) :
            callIn = [fn |-> "_getAllPages", server |-> server]
       \/ \E server \in AshbyServers(n) :
            callIn = [fn |-> "_getAllCursorPages", server |-> server]
  /\ callOut = Null
  /\ mergeIn = Null
  /\ mergeOut = Null
  /\ now = StartTime
  /\ HttpAtRest
  /\ OrchAtRest

\* getProjectCandidates / getCandidateEvents called once: what the loop did
\* (run) and what the wrapper returned (list).
GemPaginate ==
  /\ callIn.fn = "_getAllPages"
  /\ callOut = Null
  /\ callOut' = [run |-> _getAllPages(callIn.server, 1, <<>>, <<>>),
                 list |-> GemListOf(callIn.server)]
  /\ UNCHANGED <<callIn, notCallVars>>

\* getApplications / getOffers called once.
AshbyPaginate ==
  /\ callIn.fn = "_getAllCursorPages"
  /\ callOut = Null
  /\ callOut' = [run |-> _getAllCursorPages(callIn.server, NoCursor, <<>>, <<>>),
                 list |-> AshbyListOf(callIn.server)]
  /\ UNCHANGED <<callIn, notCallVars>>

PagesNext == GemPaginate \/ AshbyPaginate

SpecPages == PagesInit /\ [][PagesNext]_vars

----------------------------------------------------------------------------
(* C14 - C16: pagination *)

\* A pagination call of the named function has returned or thrown.
Paginated(fn) == callIn # Null /\ callOut # Null /\ callIn.fn = fn

\* What the server answered to the i-th request of the call.
ServedTo(i) ==
  IF callIn.fn = "_getAllPages"
    THEN GemRespond(callIn.server, callOut.run.requests[i].page)
    ELSE AshbyRespond(callIn.server, callOut.run.requests[i].cursor)

\* The items of the i-th response, none when its body is not an array.
ItemsServedTo(i) ==
  LET body == IF callIn.fn = "_getAllPages" THEN ServedTo(i).data
              ELSE ServedTo(i).results
  IN IF body = NotArray THEN <<>> ELSE body

\* The items of the first k responses, in the order of the requests.
RECURSIVE ItemsUpTo(_)
ItemsUpTo(k) == IF k = 0 THEN <<>> ELSE ItemsUpTo(k - 1) \o ItemsServedTo(k)

\* Some request of the call was answered with a failure.
SomePageFailed ==
  \E i \in 1..Len(callOut.run.requests) : ServedTo(i).outcome # "ok"

\* C14: when a page request of _getAllPages or _getAllCursorPages fails,
\* also after earlier pages were fetched, the pagination throws and the
\* wrapper around it returns the empty list: nothing gathered reaches the
\* caller.
C14_NoPartialPages ==
  \A fn \in {"_getAllPages", "_getAllCursorPages"} :
    (Paginated(fn) /\ SomePageFailed) =>
      /\ callOut.run.threw
      /\ callOut.list = <<>>

\* A Gem pagination whose first two pages came with items and whose third
\* request failed; the wrapper returned the empty list.
C14_Witness ==
  /\ Paginated("_getAllPages")
  /\ Len(callOut.run.requests) = 3
  /\ ItemsUpTo(2) = PageItems(1) \o PageItems(2)
  /\ ServedTo(3).outcome = "500"
  /\ callOut.run.threw
  /\ callOut.list = <<>>

\* moreDataAvailable false or nextCursor absent.
CursorPageIsLast(response) ==
  response.moreDataAvailable = FALSE \/ response.nextCursor = NoCursor

\* C15: every request of _getAllCursorPages has limit 100; the first has no
\* cursor and each later one the nextCursor of the response before it; the
\* loop stops at the first response with moreDataAvailable false or no
\* nextCursor, and returns the results of all the pages fetched, that last
\* one included, in the order fetched.
C15_CursorPagination ==
  Paginated("_getAllCursorPages") =>
    LET requests == callOut.run.requests
        k == Len(requests)
    IN /\ k >= 1
       /\ \A i \in 1..k : requests[i].limit = 100
       /\ requests[1].cursor = NoCursor
       /\ \A i \in 2..k :
            /\ requests[i].cursor = ServedTo(i - 1).nextCursor
            /\ requests[i].cursor # NoCursor
       /\ \A i \in 1..(k - 1) :
            ServedTo(i).outcome = "ok" /\ ~CursorPageIsLast(ServedTo(i))
       /\ ~callOut.run.threw =>
            /\ ServedTo(k).outcome = "ok"
            /\ CursorPageIsLast(ServedTo(k))
            /\ callOut.run.value = ItemsUpTo(k)
            /\ callOut.list = ItemsUpTo(k)

\* A cursor pagination over three pages, all six items returned.
C15_Witness ==
  /\ Paginated("_getAllCursorPages")
  /\ ~callOut.run.threw
  /\ Len(callOut.run.requests) = 3
  /\ callOut.run.requests[3].cursor = 3
  /\ callOut.list = PageItems(1) \o PageItems(2) \o PageItems(3)

\* Every page of the server is served with last_page = n, and the server
\* holds that many pages.
ConstantLastPage(n) ==
  /\ Len(callIn.server) >= n
  /\ \A i \in 1..Len(callIn.server) :
       /\ callIn.server[i].outcome = "ok"
       /\ callIn.server[i].pagination = [last_page |-> n]

\* no pagination metadata, or the page number has reached last_page
GemPageIsLast(response, page) ==
  \/ response.pagination = Null
  \/ /\ "last_page" \in DOMAIN response.pagination
     /\ response.pagination.last_page <= page

\* What C16 says but for the number of requests: pages 1, 2, 3, ... are
\* requested in order with page_size 100 up to the first response that has no
\* pagination metadata or whose page number has reached last_page, and the
\* items of the fetched pages are returned in order.
PagesInOrder ==
  LET requests == callOut.run.requests
      k == Len(requests)
  IN /\ k >= 1
     /\ \A i \in 1..k : requests[i] = [page |-> i, page_size |-> 100]
     /\ \A i \in 1..(k - 1) :
          ServedTo(i).outcome = "ok" /\ ~GemPageIsLast(ServedTo(i), i)
     /\ ~callOut.run.threw =>
          /\ ServedTo(k).outcome = "ok"
          /\ GemPageIsLast(ServedTo(k), k)
          /\ callOut.run.value = ItemsUpTo(k)
          /\ callOut.list = ItemsUpTo(k)

\* C16 as stated: pages are requested in order and, with a constant
\* last_page = N, exactly N page requests are made.
C16_ExactlyNRequests ==
  Paginated("_getAllPages") =>
    /\ PagesInOrder
    /\ \A n \in 0..MaxPages :
         ConstantLastPage(n) => Len(callOut.run.requests) = n

\* C16, amended: pages are requested in order and, with a constant
\* last_page = N, exactly N page requests are made when N >= 1 and one when
\* N = 0 (the first page is always requested).
C16_NRequestsAtLeastOne ==
  Paginated("_getAllPages") =>
    /\ PagesInOrder
    /\ \A n \in 0..MaxPages :
         ConstantLastPage(n) => Len(callOut.run.requests) = Max2(n, 1)

\* Three pages, each served with last_page = 3: three requests and the six
\* items in order.
C16_Witness ==
  /\ Paginated("_getAllPages")
  /\ ConstantLastPage(3)
  /\ Len(callOut.run.requests) = 3
  /\ callOut.list = PageItems(1) \o PageItems(2) \o PageItems(3)

----------------------------------------------------------------------------
(* SpecAdapters: getMonthlyOutreachData and getMonthlyFunnelData, each called
   once with a mapping and against what its provider serves *)

\* What a mapping entry may hold as its role: a role, the sentinel, nothing.
MappedRoleNames == Roles \cup {"ignore", ""}

\* The mappings of the two ids a and b, in the order of Object.entries: each
\* id is mapped to a role name or is not in the mapping.
MappingsOf(field, a, b) ==
  LET entry(id, role) == [f \in {field, "role"} |->
                            IF f = "role" THEN role ELSE id]
      entries(id) == {<<>>} \cup {<<entry(id, r)>> : r \in MappedRoleNames}
  IN {x \o y : x \in entries(a), y \in entries(b)}

\* The event types served to SpecAdapters.
ServedEventTypes == {S_inmail_sent, S_email_replied, S_scheduled, S_reply}

\* One page of events: none, or one event of the month.
EventPages == {<< <<>> >>} \cup {<< <<Event(t, 5000)>> >> : t \in ServedEventTypes}

\* What Gem serves: project p1 holds candidate c1 and p2 holds c2, each with
\* at most one event; every fetch succeeds or every fetch fails.
AdapterGemWorlds ==
  {[http |-> h, candidates |-> GemCandidates, events |-> [c1 |-> e1, c2 |-> e2]] :
     h \in {"ok", "500"}, e1 \in EventPages, e2 \in EventPages}

\* What Ashby serves: nothing, or the applications and offers of the worlds
\* above; every fetch succeeds or every fetch fails.
AshbyWorldEmpty ==
  [http |-> "ok", applications |-> << <<>> >>, offers |-> << <<>> >>]

AdapterAshbyWorlds ==
  {[w EXCEPT !.http = h] :
     w \in {AshbyWorldEmpty, AshbyWorldA, AshbyWorldB}, h \in {"ok", "403"}}

AdaptersInit ==
  /\ \/ \E m \in MappingsOf("projectId", "p1", "p2"), w \in AdapterGemWorlds :
          callIn = [fn |-> "getMonthlyOutreachData", mapping |-> m, up |-> w]
     \/ \E m \in MappingsOf("jobId", "j1", "j2"), w \in AdapterAshbyWorlds :
          callIn = [fn |-> "getMonthlyFunnelData", mapping |-> m, up |-> w]
  /\ callOut = Null
  /\ mergeIn = Null
  /\ mergeOut = Null
  /\ now = StartTime
  /\ HttpAtRest
  /\ OrchAtRest

\* getMonthlyOutreachData called once: what it returned, and the projects
\* whose candidates it asked for.
OutreachCall ==
  /\ callIn.fn = "getMonthlyOutreachData"
  /\ callOut = Null
  /\ callOut' =
       [result |-> getMonthlyOutreachData(MonthStart, MonthEnd, callIn.mapping,
                                          callIn.up),
        fetched |-> OutreachRun(MonthStart, MonthEnd, callIn.mapping,
                                callIn.up).fetched]
  /\ UNCHANGED <<callIn, notCallVars>>

\* getMonthlyFunnelData called once: what it returned, and the offers for
\* which its second pass reached the count statement.
FunnelCall ==
  /\ callIn.fn = "getMonthlyFunnelData"
  /\ callOut = Null
  /\ callOut' =
       [result |-> getMonthlyFunnelData(MonthStart, MonthEnd, callIn.mapping,
                                        StageClassification, callIn.up),
        reconciled |-> FunnelRun(MonthStart, MonthEnd, callIn.mapping,
                                 StageClassification, callIn.up).reconciled]
  /\ UNCHANGED <<callIn, notCallVars>>

AdaptersNext == OutreachCall \/ FunnelCall

SpecAdapters == AdaptersInit /\ [][AdaptersNext]_vars

----------------------------------------------------------------------------
(* C17 - C19: the adapters' classification, skipped entries and seeded keys *)

\* A call of the named adapter function has returned a value.
AdapterReturned(fn) ==
  /\ callIn # Null /\ callOut # Null
  /\ callIn.fn = fn
  /\ ~callOut.result.threw

\* getMonthlyOutreachData returned for a mapping of project p1 alone, to role
\* r1, with every fetch answered and candidate c1 holding one event of the
\* given type.
OneEventOfType(type) ==
  /\ AdapterReturned("getMonthlyOutreachData")
  /\ callIn.mapping = <<[projectId |-> "p1", role |-> "r1"]>>
  /\ callIn.up.http = "ok"
  /\ callIn.up.events["c1"] = << <<Event(type, 5000)>> >>

\* The counts the call returned for role r1, as <<outreach, responses>>.
CountedAs ==
  <<callOut.result.value.outreach["r1"], callOut.result.value.responses["r1"]>>

\* C17: an event of type "inmail_sent" is counted as outreach, an event of
\* type "email_replied" as a response, an event of type "scheduled" as
\* neither.
C17_Classification ==
  /\ OneEventOfType(S_inmail_sent) => CountedAs = <<1, 0>>
  /\ OneEventOfType(S_email_replied) => CountedAs = <<0, 1>>
  /\ OneEventOfType(S_scheduled) => CountedAs = <<0, 0>>

\* The roles of the mapping's entries that are empty or "ignore".
SkippedEntries ==
  {i \in 1..Len(callIn.mapping) : callIn.mapping[i].role \in {"", "ignore"}}

\* C18: a project-mapping entry whose role is empty or "ignore" is skipped
\* entirely: the project's candidates are not fetched, and the entry's role
\* is no key of the returned outreach and responses maps.
C18_IgnoredEntrySkipped ==
  AdapterReturned("getMonthlyOutreachData") =>
    \A i \in SkippedEntries :
      /\ callIn.mapping[i].projectId \notin callOut.fetched
      /\ callIn.mapping[i].role \notin DOMAIN callOut.result.value.outreach
      /\ callIn.mapping[i].role \notin DOMAIN callOut.result.value.responses

\* The roles with at least one mapping entry that is not empty or "ignore".
RolesWithMapping ==
  {callIn.mapping[i].role : i \in 1..Len(callIn.mapping)} \ {"", "ignore"}

\* The output maps of the adapter called.
OutputMaps ==
  IF callIn.fn = "getMonthlyOutreachData"
    THEN {callOut.result.value.outreach, callOut.result.value.responses}
    ELSE {callOut.result.value.screens, callOut.result.value.finals,
          callOut.result.value.offers, callOut.result.value.hires}

\* Every fetch of the call returned the empty list: the provider failed every
\* request, or served nothing.
EveryFetchEmpty ==
  \/ callIn.up.http # "ok"
  \/ callIn.up = AshbyWorldEmpty

\* C19: every role with at least one mapping entry that is not "ignore" is a
\* key of every output map of the adapter (outreach and responses; screens,
\* finals, offers and hires), and its value is 0 in all of them when every
\* fetch returned the empty list.
C19_MappedRolesSeeded ==
  \A fn \in {"getMonthlyOutreachData", "getMonthlyFunnelData"} :
    AdapterReturned(fn) =>
      \A r \in RolesWithMapping, map \in OutputMaps :
        /\ r \in DOMAIN map
        /\ EveryFetchEmpty => map[r] = 0

\* getMonthlyFunnelData returned for the jobs mapped to r1 and to "ignore"
\* when every request failed: r1 is in the four maps with 0.
C19_Witness ==
  /\ AdapterReturned("getMonthlyFunnelData")
  /\ callIn.mapping = <<[jobId |-> "j1", role |-> "r1"],
                        [jobId |-> "j2", role |-> "ignore"]>>
  /\ callIn.up.http = "403"
  /\ OutputMaps = {[r \in {"r1"} |-> 0]}

----------------------------------------------------------------------------
(* SpecFunnel: calculateRequiredOutreach over bounded targets and rates *)

\* A rate in (0, 1] is the fraction num / den with 1 <= num <= den; the
\* popup makes every rate of a whole percentage, p / 100.
Percent(p) == [num |-> p, den |-> 100]

DEFAULT_RATES ==
  [responseRate |-> Percent(15), interestRate |-> Percent(60),
   screenRate |-> Percent(80), passThrough |-> Percent(25),
   offerRate |-> Percent(50), acceptRate |-> Percent(80)]

\* The largest hire target of the model.
MaxHireTarget == 3

\* The rates a role may be given in place of a default one.
OtherRates == {Percent(100), Percent(50), Percent(33)}

\* What a division by zero leaves, and what Math.ceil and a further division
\* keep: a value above every count the model reaches.
Infinity == 2000000000

\* A variant of CeilDiv that rounds down.
FloorDiv(count, rate) ==
  IF rate.num = 0 \/ count = Infinity THEN Infinity
  ELSE (count * rate.den) \div rate.num

\* A variant of CeilDiv that multiplies by the rate.
CeilTimes(count, rate) ==
  IF count = Infinity THEN Infinity
  ELSE (count * rate.num + rate.den - 1) \div rate.den

\* Math.ceil(count / rate) for a count of 1 or more, in exact arithmetic; the
\* quotient by a rate of 0 is Infinity.
CeilDiv(count, rate) ==
  IF rate.num = 0 \/ count = Infinity THEN Infinity
  ELSE (count * rate.den + rate.num - 1) \div rate.num

calculateRequiredOutreach(hireTarget, rates) ==
  LET offersNeeded == CeilDiv(hireTarget, rates.acceptRate)
      finalsNeeded == CeilDiv(offersNeeded, rates.offerRate)
      screensNeeded == CeilDiv(finalsNeeded, rates.passThrough)
      interestedNeeded == CeilDiv(screensNeeded, rates.screenRate)
      responsesNeeded == CeilDiv(interestedNeeded, rates.interestRate)
      outreachNeeded == CeilDiv(responsesNeeded, rates.responseRate)
  IN [hires |-> hireTarget, offers |-> offersNeeded, finals |-> finalsNeeded,
      screens |-> screensNeeded, interested |-> interestedNeeded,
      responses |-> responsesNeeded, outreach |-> outreachNeeded]

\* A variant of WeeksInMonth without the default.
WeeksInMonthNoDefault(weeksArg) == IF weeksArg = <<>> THEN 1 ELSE weeksArg[1]

\* weeksInMonth = 4: the second argument, given (<<w>>) or left out (<<>>).
WeeksInMonth(weeksArg) == IF weeksArg = <<>> THEN 4 ELSE weeksArg[1]

calculateWeeklyTargets(monthlyOutreach, weeksArg) ==
  LET weeklyOutreach ==
        CeilDiv(monthlyOutreach, [num |-> WeeksInMonth(weeksArg), den |-> 1])
      dailyOutreach == CeilDiv(weeklyOutreach, [num |-> 5, den |-> 1])
  IN [monthly |-> monthlyOutreach, weekly |-> weeklyOutreach,
      daily |-> dailyOutreach]

\* Exact fractions [num, den] with den >= 1, kept in lowest terms.
RECURSIVE Gcd(_, _)
Gcd(a, b) == IF b = 0 THEN a ELSE Gcd(b, a % b)

Fraction(n, d) ==
  IF n = 0 THEN [num |-> 0, den |-> 1]
  ELSE [num |-> n \div Gcd(n, d), den |-> d \div Gcd(n, d)]

Times(x, y) == Fraction(x.num * y.num, x.den * y.den)

Plus(x, y) == Fraction(x.num * y.den + y.num * x.den, x.den * y.den)

\* role.conversionRates || DEFAULT_RATES
RatesOf(role) ==
  IF role.conversionRates = Null THEN DEFAULT_RATES ELSE role.conversionRates

\* overallConversion: the product of the six rates.
OverallConversion(rates) ==
  Times(rates.responseRate,
    Times(rates.interestRate,
      Times(rates.screenRate,
        Times(rates.passThrough, Times(rates.offerRate, rates.acceptRate)))))

\* overallConversion * (role.monthlyHireTarget || 1)
WeightedScore(role) ==
  Times(OverallConversion(RatesOf(role)),
        Fraction(IF role.monthlyHireTarget = 0 THEN 1
                 ELSE role.monthlyHireTarget, 1))

\* rolesWithScores.reduce((sum, r) => sum + r.weightedScore, 0)
RECURSIVE TotalScore(_)
TotalScore(roles) ==
  IF roles = <<>> THEN Fraction(0, 1)
  ELSE Plus(WeightedScore(Head(roles)), TotalScore(Tail(roles)))

\* A variant of RoundedPercent that rounds down.
TruncatedPercent(score, total) ==
  (100 * score.num * total.den) \div (score.den * total.num)

\* Math.round((score / total) * 100) for total > 0: halves round up.
RoundedPercent(score, total) ==
  (200 * score.num * total.den + score.den * total.num)
    \div (2 * score.den * total.num)

calculateOutreachDistribution(roles) ==
  LET totalScore == TotalScore(roles)
  IN [i \in 1..Len(roles) |->
        [monthlyHireTarget |-> roles[i].monthlyHireTarget,
         conversionRates |-> roles[i].conversionRates,
         efficiency |-> OverallConversion(RatesOf(roles[i])),
         weightedScore |-> WeightedScore(roles[i]),
         distributionPercent |->
           IF totalScore.num > 0
             THEN RoundedPercent(WeightedScore(roles[i]), totalScore)
             ELSE 0]]

\* The most roles of the model.
MaxRoles == 2

\* The rates a role of the distribution holds: none of its own, every rate
\* a half, every rate 1, the default ones but for a pass-through of a half,
\* the default ones but for a response rate of 0.
DistributionRates ==
  {Null,
   [k \in DOMAIN DEFAULT_RATES |-> Percent(50)],
   [k \in DOMAIN DEFAULT_RATES |-> Percent(100)],
   [DEFAULT_RATES EXCEPT !.passThrough = Percent(50)],
   [DEFAULT_RATES EXCEPT !.responseRate = Percent(0)]}

DistributionRoles ==
  [monthlyHireTarget : 1..MaxHireTarget, conversionRates : DistributionRates]

DistributionInputs ==
  {[fn |-> "calculateOutreachDistribution", roles |-> roles] :
     roles \in UNION {[1..n -> DistributionRoles] : n \in 0..MaxRoles}}

\* The largest monthly outreach and the most weeks of the model.
MaxMonthly == 334

MaxWeeks == 5

\* The inputs of calculateRequiredOutreach: a hire target and six rates, each
\* the default one or one of OtherRates.
RequiredOutreachInputs ==
  {[fn |-> "calculateRequiredOutreach", hireTarget |-> hireTarget,
    rates |-> [k \in DOMAIN DEFAULT_RATES |->
                 IF rates[k] = Percent(0) THEN DEFAULT_RATES[k] ELSE rates[k]]] :
     hireTarget \in 1..MaxHireTarget,
     rates \in [DOMAIN DEFAULT_RATES -> OtherRates \cup {Percent(0)}]}

\* The default rates but for one rate of exactly 0.
ZeroRateInputs ==
  {[fn |-> "calculateRequiredOutreach", hireTarget |-> hireTarget,
    rates |-> [DEFAULT_RATES EXCEPT ![k] = Percent(0)]] :
     hireTarget \in 1..MaxHireTarget, k \in DOMAIN DEFAULT_RATES}

WeeklyTargetsInputs ==
  {[fn |-> "calculateWeeklyTargets", monthly |-> m, weeks |-> w] :
     m \in 0..MaxMonthly, w \in {<<>>} \cup {<<n>> : n \in 1..MaxWeeks}}

FunnelInit ==
  /\ callIn \in RequiredOutreachInputs \cup ZeroRateInputs
                \cup WeeklyTargetsInputs \cup DistributionInputs
  /\ callOut = Null
  /\ mergeIn = Null
  /\ mergeOut = Null
  /\ now = StartTime
  /\ HttpAtRest
  /\ OrchAtRest

Calculate ==
  /\ callIn.fn = "calculateRequiredOutreach"
  /\ callOut = Null
  /\ callOut' = calculateRequiredOutreach(callIn.hireTarget, callIn.rates)
  /\ UNCHANGED <<callIn, notCallVars>>

WeeklyTargets ==
  /\ callIn.fn = "calculateWeeklyTargets"
  /\ callOut = Null
  /\ callOut' = calculateWeeklyTargets(callIn.monthly, callIn.weeks)
  /\ UNCHANGED <<callIn, notCallVars>>

Distribute ==
  /\ callIn.fn = "calculateOutreachDistribution"
  /\ callOut = Null
  /\ callOut' = [roles |-> calculateOutreachDistribution(callIn.roles)]
  /\ UNCHANGED <<callIn, notCallVars>>

FunnelNext == Calculate \/ WeeklyTargets \/ Distribute

SpecFunnel == FunnelInit /\ [][FunnelNext]_vars

----------------------------------------------------------------------------
(* C20: the funnel widens from hires to outreach *)

Calculated ==
  callIn # Null /\ callOut # Null /\ callIn.fn = "calculateRequiredOutreach"

\* Every rate of the call is in (0, 1].
RatesInRange ==
  \A k \in DOMAIN callIn.rates :
    callIn.rates[k].num >= 1 /\ callIn.rates[k].num <= callIn.rates[k].den

\* C20: for a hire target of 1 or more and six rates in (0, 1],
\* calculateRequiredOutreach returns outreach >= responses >= interested >=
\* screens >= finals >= offers >= hires, each a non-negative integer.
C20_FunnelWidens ==
  (Calculated /\ RatesInRange) =>
    /\ callOut.outreach >= callOut.responses
    /\ callOut.responses >= callOut.interested
    /\ callOut.interested >= callOut.screens
    /\ callOut.screens >= callOut.finals
    /\ callOut.finals >= callOut.offers
    /\ callOut.offers >= callOut.hires
    /\ callOut.hires = callIn.hireTarget
    /\ \A k \in DOMAIN callOut : callOut[k] \in Nat

\* Two hires at the default rates, but for an accept rate of 100%: the
\* offers equal the hires and every later stage is larger.
C20_Witness ==
  /\ Calculated
  /\ callIn.hireTarget = 2
  /\ callIn.rates = [DEFAULT_RATES EXCEPT !.acceptRate = Percent(100)]
  /\ callOut.offers = 2
  /\ callOut.finals = 4
  /\ callOut.screens = 16
  /\ callOut.interested = 20
  /\ callOut.responses = 34
  /\ callOut.outreach = 227

----------------------------------------------------------------------------
(* C21: the funnel at the default rates *)

\* calculateRequiredOutreach was called with the given target and
\* DEFAULT_RATES and has returned.
CalculatedDefault(hireTarget) ==
  /\ Calculated
  /\ callIn.hireTarget = hireTarget
  /\ callIn.rates = DEFAULT_RATES

\* count is the ceiling of previous / rate.
IsCeilingOf(count, previous, rate) ==
  /\ count * rate.num >= previous * rate.den
  /\ (count - 1) * rate.num < previous * rate.den

\* Each stage of the returned funnel is the ceiling of the stage after it
\* divided by the rate between them.
EachStageIsCeiling ==
  /\ IsCeilingOf(callOut.offers, callOut.hires, callIn.rates.acceptRate)
  /\ IsCeilingOf(callOut.finals, callOut.offers, callIn.rates.offerRate)
  /\ IsCeilingOf(callOut.screens, callOut.finals, callIn.rates.passThrough)
  /\ IsCeilingOf(callOut.interested, callOut.screens, callIn.rates.screenRate)
  /\ IsCeilingOf(callOut.responses, callOut.interested, callIn.rates.interestRate)
  /\ IsCeilingOf(callOut.outreach, callOut.responses, callIn.rates.responseRate)

\* C21 as stated: calculateRequiredOutreach(1, DEFAULT_RATES) yields offers 3,
\* finals 6, screens 24, interested 30, responses 50, outreach 334, each stage
\* the ceiling of the next stage's count divided by the stage's rate.
C21_DefaultFunnelOfOne ==
  CalculatedDefault(1) =>
    /\ callOut = [hires |-> 1, offers |-> 3, finals |-> 6, screens |-> 24,
                  interested |-> 30, responses |-> 50, outreach |-> 334]
    /\ EachStageIsCeiling

\* C21, amended: calculateRequiredOutreach(1, DEFAULT_RATES) yields offers 2,
\* finals 4, screens 16, interested 20, responses 34, outreach 227; the
\* counts 3, 6, 24, 30, 50, 334 are those of a hire target of 2. Each stage
\* is the ceiling of the next stage's count divided by the stage's rate.
C21_DefaultFunnel ==
  /\ CalculatedDefault(1) =>
       callOut = [hires |-> 1, offers |-> 2, finals |-> 4, screens |-> 16,
                  interested |-> 20, responses |-> 34, outreach |-> 227]
  /\ CalculatedDefault(2) =>
       callOut = [hires |-> 2, offers |-> 3, finals |-> 6, screens |-> 24,
                  interested |-> 30, responses |-> 50, outreach |-> 334]
  /\ (Calculated /\ RatesInRange) => EachStageIsCeiling

\* The call with a hire target of 1 and the default rates has returned 227.
C21_Witness ==
  /\ CalculatedDefault(1)
  /\ callOut.outreach = 227
  /\ callOut.offers = 2

----------------------------------------------------------------------------
(* C22: weekly and daily targets *)

WeeklyCalculated ==
  callIn # Null /\ callOut # Null /\ callIn.fn = "calculateWeeklyTargets"

\* The weeks the call divided by: the argument, or 4 when it was left out.
WeeksUsed == IF callIn.weeks = <<>> THEN 4 ELSE callIn.weeks[1]

\* C22: calculateWeeklyTargets(monthly, weeks) returns monthly unchanged,
\* weekly = ceil(monthly / weeks) with weeks 4 when left out, and
\* daily = ceil(weekly / 5), so weekly * weeks >= monthly and
\* daily * 5 >= weekly; calculateWeeklyTargets(334) gives weekly 84, daily 17.
C22_WeeklyTargets ==
  WeeklyCalculated =>
    /\ callOut.monthly = callIn.monthly
    /\ callOut.weekly * WeeksUsed >= callIn.monthly
    /\ (callOut.weekly - 1) * WeeksUsed < callIn.monthly
    /\ callOut.daily * 5 >= callOut.weekly
    /\ (callOut.daily - 1) * 5 < callOut.weekly
    /\ (callIn.monthly = 334 /\ callIn.weeks = <<>>) =>
         callOut.weekly = 84 /\ callOut.daily = 17

\* calculateWeeklyTargets(334) has returned.
C22_Witness ==
  /\ WeeklyCalculated
  /\ callIn.monthly = 334
  /\ callIn.weeks = <<>>
  /\ callOut = [monthly |-> 334, weekly |-> 84, daily |-> 17]

----------------------------------------------------------------------------
(* C24: a rate of exactly 0 *)

\* C24: when a rate of exactly 0 is passed to calculateRequiredOutreach, no
\* stage count it returns is non-finite (the rate being rejected or replaced
\* by a valid one).
C24_ZeroRateGuarded ==
  (Calculated /\ \E k \in DOMAIN callIn.rates : callIn.rates[k].num = 0) =>
    \A stage \in DOMAIN callOut : callOut[stage] # Infinity

----------------------------------------------------------------------------
(* C23: the outreach distribution *)

Distributed ==
  callIn # Null /\ callOut # Null /\ callIn.fn = "calculateOutreachDistribution"

\* The product of the i-th role's six rates times its hire target, each rate
\* counted in a unit that divides every value the model gives that rate, so
\* that the products of all roles have one denominator.
RateUnits ==
  [responseRate |-> 5, interestRate |-> 10, screenRate |-> 10,
   passThrough |-> 25, offerRate |-> 50, acceptRate |-> 10]

ScoreOf(i) ==
  LET rates == IF callIn.roles[i].conversionRates = Null THEN DEFAULT_RATES
               ELSE callIn.roles[i].conversionRates
      units(k) == (rates[k].num * 100) \div (rates[k].den * RateUnits[k])
  IN units("responseRate") * units("interestRate") * units("screenRate")
       * units("passThrough") * units("offerRate") * units("acceptRate")
       * callIn.roles[i].monthlyHireTarget

RECURSIVE ScoreSum(_)
ScoreSum(n) == IF n = 0 THEN 0 ELSE ScoreSum(n - 1) + ScoreOf(n)

\* percent is 100 * score / sum rounded to the nearest whole number, a half
\* rounding up.
IsRoundedShare(percent, score, sum) ==
  /\ (2 * percent - 1) * sum <= 200 * score
  /\ 200 * score < (2 * percent + 1) * sum

\* C23: each role's distributionPercent is round(100 * weightedScore / sum
\* of the weightedScores), weightedScore being the product of the role's six
\* rates times its monthlyHireTarget, and 0 for every role when the sum is
\* 0; two roles with equal rates and equal hire targets get 50 each when the
\* sum is not 0; every percent is in 0..100.
C23_Distribution ==
  Distributed =>
    LET n == Len(callIn.roles)
        out == callOut.roles
    IN /\ Len(out) = n
       /\ \A i \in 1..n :
            /\ out[i].distributionPercent \in 0..100
            /\ ScoreSum(n) = 0 => out[i].distributionPercent = 0
            /\ ScoreSum(n) > 0 =>
                 IsRoundedShare(out[i].distributionPercent, ScoreOf(i),
                                ScoreSum(n))
       /\ (n = 2 /\ callIn.roles[1] = callIn.roles[2] /\ ScoreSum(n) > 0) =>
            /\ out[1].distributionPercent = 50
            /\ out[2].distributionPercent = 50

\* Two roles at the default rates with hire targets 1 and 2: a third and two
\* thirds of the outreach, 33 and 67.
C23_Witness ==
  /\ Distributed
  /\ callIn.roles = <<[monthlyHireTarget |-> 1, conversionRates |-> Null],
                      [monthlyHireTarget |-> 2, conversionRates |-> Null]>>
  /\ callOut.roles[1].distributionPercent = 33
  /\ callOut.roles[2].distributionPercent = 67

----------------------------------------------------------------------------
(* C27: the provenance of the merged screens *)

\* The sources a provenance label names.
SourcesNamed(label) ==
  CASE label \in {"ashby+calendar", "calendar+ashby"} -> {"ashby", "calendar"}
    [] OTHER -> {label}

\* The prior record's screens count of some role is above the pipeline
\* adapter's and the calendar's, and so is the merged count of that role.
PriorIsStrictMaximum ==
  \E role \in Keys(mergeIn.prior.screens) :
    /\ mergeIn.prior.screens[role] > CountOf(Get(mergeIn.ashby, "screens"), role)
    /\ mergeIn.prior.screens[role] > CountOf(mergeIn.cal, role)
    /\ mergeOut.screens[role] = mergeIn.prior.screens[role]

\* The pipeline adapter and the calendar each counted a screen (for any role).
FedByAdapterAndCalendar ==
  /\ \E role \in Roles : CountOf(Get(mergeIn.ashby, "screens"), role) > 0
  /\ \E role \in Roles : CountOf(mergeIn.cal, role) > 0

\* C27: the screens label of a merged record names every source that
\* contributed to the merged counts: the manual source when the prior
\* record's count is the strict maximum for some role, and both the pipeline
\* adapter and the calendar when both fed the metric.
C27_ProvenanceNamesContributors ==
  (mergeIn # Null /\ mergeOut # Null) =>
    /\ PriorIsStrictMaximum =>
         "manual" \in SourcesNamed(mergeOut._sources.screens)
    /\ FedByAdapterAndCalendar =>
         {"ashby", "calendar"} \subseteq SourcesNamed(mergeOut._sources.screens)

----------------------------------------------------------------------------
(* SpecInitialize: initialize() called twice over one store *)

\* What a provider's adapter and status can be when initialize() is called:
\* as constructed or torn down, or set up by an earlier initialize() and
\* touched by the syncs since.
ProviderStates ==
  {[service |-> FALSE, status |-> NoStatus]} \cup
  {[service |-> TRUE,
    status |-> [connected |-> TRUE, lastSync |-> lastSync, error |-> error]] :
     lastSync \in {Null, ToISOString(StartTime)},
     error \in {Null, Message("No projects mapped to roles")}}

InitializeInputs ==
  {[fn |-> "initialize",
    store |-> [gemApiKey |-> gemKey, ashbyApiKey |-> ashbyKey,
               authToken |-> token],
    orch |-> [gemService |-> g.service, ashbyService |-> a.service,
              status |-> [gem |-> g.status, ashby |-> a.status,
                          calendar |-> [connected |-> calendar]]]] :
     gemKey \in BOOLEAN, ashbyKey \in BOOLEAN, token \in BOOLEAN,
     g \in ProviderStates, a \in ProviderStates, calendar \in BOOLEAN}

InitializeInit ==
  /\ callIn \in InitializeInputs
  /\ callOut = Null
  /\ mergeIn = Null
  /\ mergeOut = Null
  /\ now = StartTime
  /\ HttpAtRest
  /\ OrchAtRest

\* The first initialize().
InitializeCall ==
  /\ callIn.fn = "initialize"
  /\ callOut = Null
  /\ callOut' = [first |-> Initialized(callIn.store, callIn.orch),
                 second |-> Null]
  /\ UNCHANGED <<callIn, notCallVars>>

\* A second initialize(), the store unchanged.
InitializeAgain ==
  /\ callIn.fn = "initialize"
  /\ callOut # Null
  /\ callOut.second = Null
  /\ callOut' = [callOut EXCEPT !.second = Initialized(callIn.store, callOut.first)]
  /\ UNCHANGED <<callIn, notCallVars>>

InitializeNext == InitializeCall \/ InitializeAgain

SpecInitialize == InitializeInit /\ [][InitializeNext]_vars

----------------------------------------------------------------------------
(* C25: initialize tracks the stored keys and is idempotent *)

\* The orchestrator o has, for each provider, an adapter and a connected
\* status exactly when the provider's key is in the store st, and the reset
\* status when it is not.
TracksKeys(o, st) ==
  /\ o.gemService = st.gemApiKey
  /\ o.status.gem.connected = st.gemApiKey
  /\ ~st.gemApiKey => o.status.gem = NoStatus
  /\ o.ashbyService = st.ashbyApiKey
  /\ o.status.ashby.connected = st.ashbyApiKey
  /\ ~st.ashbyApiKey => o.status.ashby = NoStatus

\* C25: after any initialize(), each provider's adapter exists and its
\* status is connected exactly when its key is stored; without the key the
\* adapter is null and the status is {connected: false, lastSync: null,
\* error: null}; a second initialize() over the unchanged store leaves the
\* adapters' presence and every status field as the first left them.
C25_InitializeIdempotent ==
  (callIn # Null /\ callOut # Null /\ callIn.fn = "initialize") =>
    /\ TracksKeys(callOut.first, callIn.store)
    /\ callOut.second # Null =>
         /\ TracksKeys(callOut.second, callIn.store)
         /\ callOut.second = callOut.first

\* Two calls over a store with the Gem key only, on an orchestrator that had
\* an Ashby adapter and a Gem status with an error: Ashby is torn down and
\* reset, Gem keeps its error, and the second call changed nothing.
C25_Witness ==
  /\ callIn # Null /\ callOut # Null /\ callIn.fn = "initialize"
  /\ callIn.store.gemApiKey /\ ~callIn.store.ashbyApiKey
  /\ callIn.orch.ashbyService
  /\ callIn.orch.status.ashby.error # Null
  /\ callIn.orch.status.gem.error # Null
  /\ callOut.second # Null
  /\ callOut.second = callOut.first
  /\ ~callOut.second.ashbyService
  /\ callOut.second.status.ashby = NoStatus
  /\ callOut.second.status.gem.error = callIn.orch.status.gem.error

----------------------------------------------------------------------------
(* C26: the not-configured short circuit *)

NotConfiguredMessage(p) ==
  IF p = "gem" THEN Message("No projects mapped to roles")
  ELSE Message("No jobs mapped to roles")

\* The step of syncAll that runs the provider's sync up to its adapter call,
\* the provider's adapter being set up.
SyncChecks(p) ==
  /\ sync.pc = p
  /\ sync'.pc # p
  /\ IF p = "gem" THEN orch.gemService ELSE orch.ashbyService

NoFreshCache(p) ==
  \/ CacheOf(store, p) = Null
  \/ CacheAge(CacheOf(store, p), now) >= CACHE_TTL_MS

\* C26: when a provider's sync finds no mapping and no fresh cache entry (and
\* the store rejects no read), it ends before the adapter is called: the
\* next position is the next provider's, not the adapter's answer, the
\* provider is not among those called, its cache entry is what it was, its
\* status carries the not-configured message and its data is null.
C26_NotConfiguredShortCircuit ==
  [][\A p \in Providers :
       (/\ SyncChecks(p)
        /\ NoFreshCache(p)
        /\ Len(MappingOf(store, p)) = 0
        /\ ~sync'.fault) =>
         /\ sync'.pc \in PastSync(p)
         /\ sync'.pc \notin {"gemFetch", "ashbyFetch"}
         /\ p \notin sync'.called
         /\ sync'.seen[p] = "none"
         /\ CacheOf(store', p) = CacheOf(store, p)
         /\ orch'.status[p].error = NotConfiguredMessage(p)
         /\ DataOf(sync', p) = Null]_vars

\* Gem's sync found an expired cache entry and no project mapping: it ended
\* with the message, no data and no call, the stale entry still stored.
C26_Witness ==
  /\ sync.pc \in PastSync("gem")
  /\ ~sync.fault
  /\ sync.age["gem"] >= CACHE_TTL_MS
  /\ store.gemCache # Null
  /\ Len(store.gemProjectMapping) = 0
  /\ "gem" \in sync.failed
  /\ "gem" \notin sync.called
  /\ sync.gemData = Null
  /\ orch.status.gem.error = Message("No projects mapped to roles")

----------------------------------------------------------------------------
(* C29: a manual entry logged while syncAll is suspended *)

\* syncAll writes the monthly record and returns, after an outreach was
\* logged by hand while it awaited an adapter; the store rejected nothing
\* and Gem gave it no data, so the outreach counts it writes are those of
\* the record it read at its start.
WritesAfterManualLog ==
  /\ sync.pc = "merge"
  /\ sync'.pc = "done"
  /\ sync.dirty
  /\ ~sync.fault
  /\ ~sync'.fault
  /\ sync.gemData = Null
  /\ store.monthlyData # Null

\* C29: no interleaving loses an update to the persisted monthly record:
\* when an outreach is logged by hand between a syncAll's read of the record
\* and its write, every role's outreach count in the record after the write
\* is at least the count the manual log stored.
C29_NoLostUpdate ==
  [][WritesAfterManualLog =>
       \A r \in ManualRoles :
         CountOf(store'.monthlyData.outreach, r) >=
           CountOf(store.monthlyData.outreach, r)]_vars

----------------------------------------------------------------------------
(* AshbyService.suggestStageClassification *)

S_screen == <<"s","c","r","e","e","n">>

S_phone == <<"p","h","o","n","e">>

S_recruiter == <<"r","e","c","r","u","i","t","e","r">>

S_initial == <<"i","n","i","t","i","a","l">>

S_call == <<"c","a","l","l">>

S_onsite == <<"o","n","s","i","t","e">>

S_on_site == <<"o","n","-","s","i","t","e">>

S_panel == <<"p","a","n","e","l">>

S_technical == <<"t","e","c","h","n","i","c","a","l">>

S_final == <<"f","i","n","a","l">>

S_loop == <<"l","o","o","p">>

S_team == <<"t","e","a","m">>

S_virtual == <<"v","i","r","t","u","a","l">>

S_offer == <<"o","f","f","e","r">>

S_hire == <<"h","i","r","e">>

S_start == <<"s","t","a","r","t">>

S_accept == <<"a","c","c","e","p","t">>

S_onboard == <<"o","n","b","o","a","r","d">>

S_review == <<"r","e","v","i","e","w">>

S_interview == <<"i","n","t","e","r","v","i","e","w">>

Whitespace == {" "}

\* /a\s*b/.test(s): a, any run of whitespace, then b.
TestSpaced(s, a, b) ==
  \E i \in 1..Len(s), j \in 1..Len(s) :
    /\ i + Len(a) <= j
    /\ j + Len(b) - 1 <= Len(s)
    /\ SubSeq(s, i, i + Len(a) - 1) = a
    /\ \A k \in (i + Len(a))..(j - 1) : s[k] \in Whitespace
    /\ SubSeq(s, j, j + Len(b) - 1) = b

\* /screen|phone\s*screen|recruiter\s*screen|initial\s*call/
ScreenPattern(name) ==
  \/ Includes(name, S_screen)
  \/ TestSpaced(name, S_phone, S_screen)
  \/ TestSpaced(name, S_recruiter, S_screen)
  \/ TestSpaced(name, S_initial, S_call)

\* /onsite|on-site|panel|technical|final|loop|team|virtual\s*onsite/
FinalPattern(name) ==
  \/ Includes(name, S_onsite)
  \/ Includes(name, S_on_site)
  \/ Includes(name, S_panel)
  \/ Includes(name, S_technical)
  \/ Includes(name, S_final)
  \/ Includes(name, S_loop)
  \/ Includes(name, S_team)
  \/ TestSpaced(name, S_virtual, S_onsite)

\* /offer/
OfferPattern(name) == Includes(name, S_offer)

\* /hire[d]?|start|accept|onboard/
HiredPattern(name) ==
  \/ Includes(name, S_hire)
  \/ Includes(name, S_hired)
  \/ Includes(name, S_start)
  \/ Includes(name, S_accept)
  \/ Includes(name, S_onboard)

\* The argument is <<stageName>>, or <<>> when the stage has no name;
\* (stageName || '').toLowerCase()
suggestStageClassification(stageArg) ==
  LET name == ToLowerCase(IF stageArg = <<>> THEN <<>> ELSE stageArg[1])
  IN IF ScreenPattern(name) THEN "screen"
     ELSE IF FinalPattern(name) THEN "final"
     ELSE IF OfferPattern(name) THEN "offer"
     ELSE IF HiredPattern(name) THEN "hired"
     ELSE "ignore"

----------------------------------------------------------------------------
(* SpecStages: suggestStageClassification over stage names *)

StageWords ==
  {S_screen, S_phone, S_recruiter, S_initial, S_call, S_onsite, S_on_site,
   S_panel, S_technical, S_final, S_loop, S_team, S_virtual, S_offer, S_hire,
   S_hired, S_start, S_accept, S_onboard, S_review, S_interview}

\* The word with its first letter in upper case.
Capitalized(w) ==
  [i \in 1..Len(w) |->
     IF i = 1 /\ \E k \in 1..26 : LowerChars[k] = w[i]
       THEN UpperChars[CHOOSE k \in 1..26 : LowerChars[k] = w[i]]
       ELSE w[i]]

\* Stage names as Ashby's users write them: one word or two, in lower case
\* or capitalized, the two words joined, or apart by one or two spaces.
StageNames ==
  {<<>>} \cup StageWords \cup {Capitalized(w) : w \in StageWords} \cup
  {Capitalized(a) \o gap \o Capitalized(b) :
     a \in StageWords, b \in StageWords, gap \in {<<>>, <<" ">>, <<" ", " ">>}}

StagesInit ==
  /\ \E stageArg \in {<<>>} \cup {<<stageName>> : stageName \in StageNames} :
       callIn = [fn |-> "suggestStageClassification", stageArg |-> stageArg]
  /\ callOut = Null
  /\ mergeIn = Null
  /\ mergeOut = Null
  /\ now = StartTime
  /\ HttpAtRest
  /\ OrchAtRest

Suggest ==
  /\ callIn.fn = "suggestStageClassification"
  /\ callOut = Null
  /\ callOut' = [value |-> suggestStageClassification(callIn.stageArg)]
  /\ UNCHANGED <<callIn, notCallVars>>

StagesNext == Suggest

SpecStages == StagesInit /\ [][StagesNext]_vars

----------------------------------------------------------------------------
(* C28: the suggested classification by keyword *)

Suggested == callIn # Null /\ callOut # Null /\ callIn.fn = "suggestStageClassification"

\* The stage name in lower case, the empty string when it is missing.
LowerName ==
  ToLowerCase(IF callIn.stageArg = <<>> THEN <<>> ELSE callIn.stageArg[1])

\* The classifications whose keywords, as the claim lists them, the name
\* contains.
KeywordClasses ==
  {c \in {"screen", "final", "offer", "hired"} :
     \E w \in CASE c = "screen" -> {S_screen, S_recruiter \o <<" ">> \o S_call}
                [] c = "final" -> {S_onsite, S_panel, S_final, S_loop}
                [] c = "offer" -> {S_offer}
                [] c = "hired" -> {S_hire, S_start, S_accept, S_onboard} :
       Includes(LowerName, w)}

\* C28: by case-insensitive match, suggestStageClassification returns screen
\* for a name containing "screen" or "recruiter call", final for one
\* containing "onsite", "panel", "final" or "loop", offer for one containing
\* "offer", hired for one containing "hire", "start", "accept" or "onboard"
\* (one of them when the name has keywords of several), and ignore for every
\* other name, the empty and the missing name included.
C28_KeywordTable ==
  Suggested =>
    IF KeywordClasses = {} THEN callOut.value = "ignore"
    ELSE callOut.value \in KeywordClasses

----------------------------------------------------------------------------
(* SpecConcurrent: two _post calls in flight on one AshbyService *)

\* The two call sites. Each call runs from one await to the next without
\* interruption; at an await the other call, or a timer, may run.
Callers == {"a", "b"}

CallIdle ==
  [pc |-> "idle", at |-> 0, read |-> 0, slept |-> FALSE, attempt |-> 0,
   outcome |-> "", ra |-> 0, after |-> "", result |-> Null, fetches |-> <<>>]

\* How long before the model starts the instance made its last request: never
\* (lastRequestTime = 0), or less than the interval ago.
EarlierRequests == {0, StartTime - 1000, StartTime - 3000}

ConcurrentInit ==
  /\ callIn = [fn |-> "_post"]
  /\ callOut = [c \in Callers |-> CallIdle]
  /\ now = StartTime
  /\ lastRequestTime \in EarlierRequests
  /\ http = [client |-> "ashby", pc |-> "idle", attempt |-> 0, result |-> Null,
             trace |-> <<>>]
  /\ calls = 0
  /\ mergeIn = Null
  /\ mergeOut = Null
  /\ OrchAtRest

\* A variant of WaitAfterSleep that checks the interval again when the sleep
\* is over.
WaitAfterSleepRechecked(last, t) ==
  IF t - last < minRequestInterval THEN minRequestInterval - (t - last) ELSE 0

\* What a call waits once its interval sleep is over: the check is an `if`
\* before the loop, made once, so nothing.
WaitAfterSleep(last, t) == 0

\* The top of the for loop up to the await of the fetch: lastRequestTime is
\* set and the request issued, to be answered with some outcome.
StartRound(c, call) ==
  \E outcome \in Outcomes, ra \in RetryAfterValues :
    /\ outcome # "429" => ra = 0
    /\ lastRequestTime' = now
    /\ callOut' = [callOut EXCEPT ![c] =
                     [call EXCEPT !.pc = "fetching",
                                  !.at = now + FetchDuration(outcome),
                                  !.outcome = outcome, !.ra = ra,
                                  !.fetches = @ \o <<now>>]]

\* _post is called: the interval check, and the sleep or the first round.
PostCalled(c) ==
  /\ callOut[c].pc = "idle"
  /\ LET timeSinceLast == now - lastRequestTime
         call == [callOut[c] EXCEPT !.read = lastRequestTime]
     IN IF timeSinceLast < minRequestInterval
          THEN /\ callOut' = [callOut EXCEPT ![c] =
                                [call EXCEPT !.pc = "waiting", !.slept = TRUE,
                                             !.at = now + (minRequestInterval
                                                           - timeSinceLast)]]
               /\ UNCHANGED lastRequestTime
          ELSE StartRound(c, call)
  /\ UNCHANGED <<callIn, now, http, calls, mergeVars, orchVars>>

\* The interval sleep is over.
SleepOver(c) ==
  /\ callOut[c].pc = "waiting"
  /\ callOut[c].at <= now
  /\ LET wait == WaitAfterSleep(lastRequestTime, now)
     IN IF wait > 0
          THEN /\ callOut' = [callOut EXCEPT ![c].at = now + wait]
               /\ UNCHANGED lastRequestTime
          ELSE StartRound(c, callOut[c])
  /\ UNCHANGED <<callIn, now, http, calls, mergeVars, orchVars>>

\* The fetch is answered, aborted or failed: the rest of the loop body.
FetchAnswered(c) ==
  /\ callOut[c].pc = "fetching"
  /\ callOut[c].at <= now
  /\ LET call == callOut[c]
         step == PostStep(call.attempt, call.outcome, call.ra)
     IN callOut' = [callOut EXCEPT ![c] =
          IF step.sleep > 0
            THEN [call EXCEPT !.pc = "backoff", !.at = now + step.sleep,
                              !.attempt = step.attempt, !.after = step.pc,
                              !.result = step.result]
            ELSE [call EXCEPT !.pc = step.pc, !.attempt = step.attempt,
                              !.result = step.result]]
  /\ UNCHANGED <<callIn, now, lastRequestTime, http, calls, mergeVars, orchVars>>

\* The sleep after a 429 or a failed attempt is over: the next round, or the
\* end of the loop.
BackoffOver(c) ==
  /\ callOut[c].pc = "backoff"
  /\ callOut[c].at <= now
  /\ IF callOut[c].after = "attempt"
       THEN StartRound(c, callOut[c])
       ELSE /\ callOut' = [callOut EXCEPT ![c].pc = callOut[c].after]
            /\ UNCHANGED lastRequestTime
  /\ UNCHANGED <<callIn, now, http, calls, mergeVars, orchVars>>

Pending == {c \in Callers : callOut[c].pc \in {"waiting", "fetching", "backoff"}}

\* The second call comes this long after the first.
CallGaps == {1000}

\* Time passes while every call in flight awaits: up to the next timer or
\* answer, or, with a call still to come, for the gap between the two calls.
TimePasses ==
  /\ \A c \in Pending : callOut[c].at > now
  /\ \/ /\ Pending # {}
        /\ \E c \in Pending :
             /\ \A d \in Pending : callOut[c].at <= callOut[d].at
             /\ now' = callOut[c].at
     \/ /\ \E c \in Callers : callOut[c].pc = "idle"
        /\ \E c \in Callers : callOut[c].pc # "idle"
        /\ now < lastRequestTime + minRequestInterval
        /\ \E gap \in CallGaps :
             /\ \A c \in Pending : now + gap < callOut[c].at
             /\ now' = now + gap
  /\ UNCHANGED <<callIn, callOut, lastRequestTime, http, calls, mergeVars,
                 orchVars>>

ConcurrentNext ==
  \/ \E c \in Callers : PostCalled(c)
  \/ \E c \in Callers : SleepOver(c)
  \/ \E c \in Callers : FetchAnswered(c)
  \/ \E c \in Callers : BackoffOver(c)
  \/ TimePasses

SpecConcurrent == ConcurrentInit /\ [][ConcurrentNext]_vars

----------------------------------------------------------------------------
(* C30: two concurrent _post calls fetch together *)

\* Both calls were made while the instance's last request was less than the
\* interval old, read the same lastRequestTime, slept, and have issued their
\* first fetch.
BothReadTheSame ==
  /\ \A c \in Callers : callOut[c].slept /\ Len(callOut[c].fetches) >= 1
  /\ callOut["a"].read = callOut["b"].read

FirstFetchGap ==
  IF callOut["a"].fetches[1] >= callOut["b"].fetches[1]
    THEN callOut["a"].fetches[1] - callOut["b"].fetches[1]
    ELSE callOut["b"].fetches[1] - callOut["a"].fetches[1]

\* C30: two _post calls in flight on one instance that both read the same
\* lastRequestTime sleep to the same instant and issue their first fetches
\* less than minRequestInterval apart.
C30_ConcurrentPostsCollide ==
  (callIn # Null /\ callIn.fn = "_post" /\ BothReadTheSame) =>
    FirstFetchGap < minRequestInterval

\* Both calls read the lastRequestTime of a request made a second before
\* the model starts and slept, and their first fetches went out at the same
\* instant, the interval after that request.
C30_Witness ==
  /\ callIn # Null /\ callIn.fn = "_post"
  /\ BothReadTheSame
  /\ lastRequestTime # 0
  /\ callOut["a"].read = StartTime - 1000
  /\ callOut["a"].fetches[1] = callOut["b"].fetches[1]
  /\ callOut["a"].fetches[1] = callOut["a"].read + minRequestInterval

----------------------------------------------------------------------------
(* SpecCounts: the adapters called once over events, applications and offers
   of every kind, at and around the bounds of the date range *)

S_InMail == <<"I","n","M","a","i","l">>

\* Instants before, at, inside, at and after the range.
RangeInstants == {MonthStart - 1, MonthStart, 5000, MonthEnd, MonthEnd + 1}

\* Event types: outreach, response, both vocabularies at once, neither, and
\* outreach in mixed case.
CountedEventTypes == {S_inmail_sent, S_reply, S_email_replied, S_scheduled, S_InMail}

\* Project p1 holds candidates c1 and c2, project p2 holds c3.
CountsCandidates ==
  [p1 |-> << <<[id |-> "c1"], [id |-> "c2"]>> >>, p2 |-> << <<[id |-> "c3"]>> >>]

\* Candidate c1 has no event or one of any type at any instant; c2 and c3
\* have events inside the range; at most one list fails.
CountsGemWorlds ==
  {[http |-> "ok", candidates |-> CountsCandidates,
    events |-> [c1 |-> e1, c2 |-> e2, c3 |-> e3], failing |-> f] :
     e1 \in {<< <<>> >>} \cup
            {<< <<Event(t, at)>> >> : t \in CountedEventTypes, at \in RangeInstants},
     e2 \in {<< <<>> >>, << <<Event(S_inmail_sent, 5000)>> >>,
             << <<Event(S_reply, 5000)>>, <<Event(S_inmail_sent, 6000)>> >>},
     e3 \in {<< <<>> >>, << <<Event(S_follow_up, 7000)>> >>},
     f \in {{}, {"p1"}, {"p2"}, {"c1"}, {"c2"}, {"c3"}}}

CountsGemMappings ==
  {FullGemMapping,
   <<[projectId |-> "p1", role |-> "r1"], [projectId |-> "p2", role |-> "r1"]>>}

\* The first application is of any job (j3 is not mapped), stage (st_none is
\* not classified), status and instant; a second may follow it.
CountsApplications ==
  {<< <<Application(j, st, status, at)>> \o more >> :
     j \in {"j1", "j2", "j3"},
     st \in {"st_screen", "st_final", "st_offer", "st_hired", "st_other",
             "st_none"},
     status \in {S_active, S_Hired},
     at \in RangeInstants,
     more \in {<<>>, <<Application("j1", "st_screen", S_hired, 5000)>>,
               <<Application("j1", "st_hired", S_Hired, 6000)>>}}

CountsOffers ==
  {<< <<>> >>,
   << <<Offer("j1", S_sent, MonthStart)>> >>,
   << <<Offer("j1", S_accepted, 5000), Offer("j2", S_approved, MonthEnd)>> >>,
   << <<Offer("j1", S_active, 5000)>>, <<Offer("j1", S_sent, MonthEnd + 1)>> >>,
   << <<Offer("j1", S_sent, MonthStart - 1), Offer("j3", S_approved, 5000)>> >>}

CountsAshbyWorlds ==
  {[http |-> "ok", applications |-> a, offers |-> o] :
     a \in CountsApplications \cup {<< <<>> >>}, o \in CountsOffers}

CountsAshbyMappings ==
  {FullAshbyMapping,
   <<[jobId |-> "j1", role |-> "r1"], [jobId |-> "j2", role |-> "ignore"]>>,
   <<[jobId |-> "j1", role |-> "r1"], [jobId |-> "j2", role |-> "r1"]>>}

CountsInit ==
  /\ \/ \E m \in CountsGemMappings, w \in CountsGemWorlds :
          callIn = [fn |-> "getMonthlyOutreachData", mapping |-> m, up |-> w]
     \/ \E m \in CountsAshbyMappings, w \in CountsAshbyWorlds :
          callIn = [fn |-> "getMonthlyFunnelData", mapping |-> m, up |-> w]
  /\ callOut = Null
  /\ mergeIn = Null
  /\ mergeOut = Null
  /\ now = StartTime
  /\ HttpAtRest
  /\ OrchAtRest

CountsNext == OutreachCall \/ FunnelCall

SpecCounts == CountsInit /\ [][CountsNext]_vars

----------------------------------------------------------------------------
(* C31 - C33: what getMonthlyOutreachData counts *)

InRange(at) == MonthStart <= at /\ at <= MonthEnd

\* The type, in lower case, contains one of the terms of the list.
HasTerm(type, terms) ==
  \E i \in 1..Len(terms) : Includes(ToLowerCase(type), terms[i])

\* The events the call comes to when the lists in `failed` are taken as
\* empty, each as <<mapping entry, candidate, event>> with its role and the
\* event itself.
EventsReached(failed) ==
  {x \in [entry : 1..Len(callIn.mapping), candidate : 1..2, event : 1..2] :
     LET e == callIn.mapping[x.entry]
         candidates == Flatten(callIn.up.candidates[e.projectId])
     IN /\ e.role \notin {"", "ignore"}
        /\ e.projectId \notin failed
        /\ x.candidate <= Len(candidates)
        /\ candidates[x.candidate].id \notin failed
        /\ x.event <= Len(Flatten(callIn.up.events[candidates[x.candidate].id]))}

RoleAt(x) == callIn.mapping[x.entry].role

EventAt(x) ==
  Flatten(callIn.up.events[
    Flatten(callIn.up.candidates[callIn.mapping[x.entry].projectId])[x.candidate].id
  ])[x.event]

\* The events of the role, in range, that count as outreach: those with an
\* outreach term; and as responses: those with a response term and no
\* outreach term.
OutreachOf(role, failed) ==
  {x \in EventsReached(failed) :
     /\ RoleAt(x) = role
     /\ InRange(EventAt(x).at)
     /\ HasTerm(EventAt(x).type, OutreachTypes)}

ResponsesOf(role, failed) ==
  {x \in EventsReached(failed) :
     /\ RoleAt(x) = role
     /\ InRange(EventAt(x).at)
     /\ ~HasTerm(EventAt(x).type, OutreachTypes)
     /\ HasTerm(EventAt(x).type, ResponseTypes)}

OutreachCalled ==
  callIn # Null /\ callOut # Null /\ callIn.fn = "getMonthlyOutreachData"

\* C31: when the fetch of one candidate's events or of one project's
\* candidates fails, getMonthlyOutreachData returns normally, and for every
\* role its counts are those of the events of the other lists, as if the
\* failed fetch had returned the empty list.
C31_FetchFailureLosesNothing ==
  (OutreachCalled /\ callIn.up.failing # {}) =>
    /\ ~callOut.result.threw
    /\ \A role \in DOMAIN callOut.result.value.outreach :
         /\ callOut.result.value.outreach[role] =
              Cardinality(OutreachOf(role, callIn.up.failing))
         /\ callOut.result.value.responses[role] =
              Cardinality(ResponsesOf(role, callIn.up.failing))

\* The events of candidate c1 could not be fetched; the outreach of c2 and
\* the response of c2, both of role r1, and the outreach of c3 are counted.
C31_Witness ==
  /\ OutreachCalled
  /\ callIn.up.failing = {"c1"}
  /\ callIn.up.events["c1"] = << <<Event(S_inmail_sent, 5000)>> >>
  /\ callIn.mapping = FullGemMapping
  /\ ~callOut.result.threw
  /\ callOut.result.value.outreach = [r1 |-> 1, r2 |-> 1]
  /\ callOut.result.value.responses = [r1 |-> 1, r2 |-> 0]

\* The events of the role that lie in the range.
InRangeOf(role) ==
  {x \in EventsReached({}) : RoleAt(x) = role /\ InRange(EventAt(x).at)}

\* C32: each in-range event adds exactly 1 to at most one counter of its
\* role: to outreach when its lower-cased type contains an outreach term,
\* otherwise to responses when it contains a response term, otherwise to
\* none; so no event is counted both as outreach and as a response.
C32_OneCounterPerEvent ==
  (OutreachCalled /\ callIn.up.failing = {}) =>
    /\ ~callOut.result.threw
    /\ \A role \in DOMAIN callOut.result.value.outreach :
         /\ callOut.result.value.outreach[role] =
              Cardinality(OutreachOf(role, {}))
         /\ callOut.result.value.responses[role] =
              Cardinality(ResponsesOf(role, {}))
         /\ callOut.result.value.outreach[role]
              + callOut.result.value.responses[role]
              <= Cardinality(InRangeOf(role))

\* The one event served is of type "email_replied", which holds the outreach
\* term "email" and the response term "replied": it is counted once, as
\* outreach.
C32_Witness ==
  /\ OutreachCalled
  /\ callIn.up.failing = {}
  /\ callIn.mapping = FullGemMapping
  /\ callIn.up.events =
       [c1 |-> << <<Event(S_email_replied, 5000)>> >>, c2 |-> << <<>> >>,
        c3 |-> << <<>> >>]
  /\ callOut.result.value.outreach["r1"] = 1
  /\ callOut.result.value.responses["r1"] = 0

\* getMonthlyOutreachData was called for the full mapping with every fetch
\* answered and `event`, of candidate c1 and so of role r1, the one event
\* served.
OnlyEvent(event) ==
  /\ OutreachCalled
  /\ callIn.up.failing = {}
  /\ callIn.mapping = FullGemMapping
  /\ callIn.up.events =
       [c1 |-> << <<event>> >>, c2 |-> << <<>> >>, c3 |-> << <<>> >>]

FunnelCalled ==
  callIn # Null /\ callOut # Null /\ callIn.fn = "getMonthlyFunnelData"

\* The stage classification of the application, "" when its stage has none.
ClassOf(app) ==
  IF app.stageId \in DOMAIN StageClassification
    THEN StageClassification[app.stageId] ELSE ""

\* The job of the application or offer maps to a role.
JobMapped(item) == RoleOfJob(callIn.mapping, item.jobId) \notin {"", "ignore"}

\* getMonthlyFunnelData was called with `app` the one application served,
\* its job mapped to a role and its stage classified.
OnlyApplication(app) ==
  /\ FunnelCalled
  /\ callIn.up.applications = << <<app>> >>
  /\ JobMapped(app)
  /\ ClassOf(app) \in {"screen", "final", "offer", "hired"}

\* What the call returned for the role, over the four maps.
FunnelTotal(role) ==
  callOut.result.value.screens[role] + callOut.result.value.finals[role]
    + callOut.result.value.offers[role] + callOut.result.value.hires[role]

\* The offers served whose job maps to a role and whose status is approved,
\* sent or accepted.
ActiveOffers ==
  {offer \in {Flatten(callIn.up.offers)[k] :
                k \in 1..Len(Flatten(callIn.up.offers))} :
     /\ JobMapped(offer)
     /\ ToLowerCase(offer.status) \in {S_approved, S_sent, S_accepted}}

----------------------------------------------------------------------------
(* C34 - C36: what getMonthlyFunnelData counts *)

AppsServed == Flatten(callIn.up.applications)

\* The applications (by position) that are in range, of a job mapped to a
\* role other than "ignore", and of a stage classified screen, final, offer
\* or hired.
Qualifying ==
  {k \in 1..Len(AppsServed) :
     /\ InRange(AppsServed[k].at)
     /\ JobMapped(AppsServed[k])
     /\ ClassOf(AppsServed[k]) \in {"screen", "final", "offer", "hired"}}

QualifyingOf(role) ==
  {k \in Qualifying : RoleOfJob(callIn.mapping, AppsServed[k].jobId) = role}

\* The number of the role's qualifying applications at a stage of the class.
StageCount(class, role) ==
  Cardinality({k \in QualifyingOf(role) : ClassOf(AppsServed[k]) = class})

\* The number of the role's qualifying applications whose status is "hired"
\* in any case and whose stage is not classified hired.
StatusHires(role) ==
  Cardinality({k \in QualifyingOf(role) :
                 /\ ToLowerCase(AppsServed[k].status) = S_hired
                 /\ ClassOf(AppsServed[k]) # "hired"})

\* C34: every application in range, of a job mapped to a role other than
\* "ignore" and of a stage classified screen, final, offer or hired adds 1 to
\* the bucket of that stage for its role, and no application adds to the
\* bucket of another stage; an application that is out of range, of an
\* unmapped or ignored job, or of an unclassified or ignored stage changes no
\* count, its status notwithstanding.
C34_MatchingBucket ==
  (FunnelCalled /\ ~callOut.result.threw) =>
    /\ \A role \in DOMAIN callOut.result.value.screens :
         /\ callOut.result.value.screens[role] = StageCount("screen", role)
         /\ callOut.result.value.finals[role] = StageCount("final", role)
         /\ callOut.result.value.offers[role] = StageCount("offer", role)
         /\ callOut.result.value.hires[role] >= StageCount("hired", role)
         /\ QualifyingOf(role) = {} =>
              /\ callOut.result.value.screens[role] = 0
              /\ callOut.result.value.finals[role] = 0
              /\ callOut.result.value.offers[role] = 0
              /\ callOut.result.value.hires[role] = 0

\* One application is served, of a job mapped to r2, at a final stage and
\* not hired: finals of r2 is 1 and no other count moved.
C34_Witness ==
  /\ FunnelCalled
  /\ callIn.mapping = FullAshbyMapping
  /\ callIn.up.applications =
       << <<Application("j2", "st_final", S_active, 5000)>> >>
  /\ callOut.result.value.finals = [r1 |-> 0, r2 |-> 1]
  /\ callOut.result.value.screens = [r1 |-> 0, r2 |-> 0]
  /\ callOut.result.value.offers = [r1 |-> 0, r2 |-> 0]
  /\ callOut.result.value.hires = [r1 |-> 0, r2 |-> 0]

\* C35: an application whose status is "hired" in any case and whose stage
\* is classified screen, final or offer adds 1 to hires besides its stage
\* bucket; one whose stage is classified hired adds exactly 1 to hires; no
\* application adds more than 1 to the hires of its role.
C35_HiresOncePerApplication ==
  (FunnelCalled /\ ~callOut.result.threw) =>
    \A role \in DOMAIN callOut.result.value.hires :
      /\ callOut.result.value.hires[role] =
           StageCount("hired", role) + StatusHires(role)
      /\ callOut.result.value.hires[role] <= Cardinality(QualifyingOf(role))

\* Two applications of role r1: one at a screen stage with status "Hired",
\* one at a hired stage with status "Hired". Each adds 1 to hires, the first
\* also 1 to screens.
C35_Witness ==
  /\ FunnelCalled
  /\ callIn.mapping = FullAshbyMapping
  /\ callIn.up.applications =
       << <<Application("j1", "st_screen", S_Hired, 5000),
            Application("j1", "st_hired", S_Hired, 6000)>> >>
  /\ callOut.result.value.screens["r1"] = 1
  /\ callOut.result.value.hires["r1"] = 2

----------------------------------------------------------------------------
(* C37: a sync in which every request failed *)

UpstreamOf(p) == IF p = "gem" THEN upstream.gem ELSE upstream.ashby

\* The step of syncAll in which the provider's adapter, every request of
\* which the provider refuses, comes back, the store rejecting nothing.
AdapterBackAllFailed(p) ==
  /\ sync.pc = (IF p = "gem" THEN "gemFetch" ELSE "ashbyFetch")
  /\ sync'.pc # sync.pc
  /\ UpstreamOf(p).http # "ok"
  /\ ~sync'.fault

\* syncAll writes the monthly record after Gem's adapter was called in this
\* run and had every request refused.
WritesAfterGemAllFailed ==
  /\ sync.pc = "merge"
  /\ sync'.pc = "done"
  /\ "gem" \in sync.called
  /\ sync.seen["gem"] # "ok"
  /\ ~sync.dirty

\* C37: a provider sync in which every HTTP request failed is handled as a
\* failed sync: the cache entry is not written, the provider's status holds
\* an error, and an outreach count of the prior record that is not zero is
\* not zero in the record persisted.
C37_AllFailedIsFailedSync ==
  [][/\ \A p \in Providers :
          AdapterBackAllFailed(p) =>
            /\ CacheOf(store', p) = CacheOf(store, p)
            /\ orch'.status[p].error # Null
     /\ WritesAfterGemAllFailed =>
          \A r \in Keys(sync.existingData.outreach) :
            sync.existingData.outreach[r] > 0 =>
              CountOf(store'.monthlyData.outreach, r) > 0]_vars

----------------------------------------------------------------------------
(* C38 *)

\* What a finished syncAll's adapter and calendar reported for a role.
ReportedScreens(s, role) ==
  Max2(CountOf(Get(s.ashbyData, "screens"), role), CountOf(s.calendar, role))

----------------------------------------------------------------------------
(* C39: the month key and the date range of syncAll *)

\* The months the instants of the model fall in, with their lengths in
\* days. Instants are whole hours counted from the first instant, in UTC, of
\* the first of these months.
CalendarWindow ==
  <<[year |-> 2023, month |-> 12, days |-> 31],
    [year |-> 2024, month |-> 1, days |-> 31],
    [year |-> 2024, month |-> 2, days |-> 29],
    [year |-> 2024, month |-> 3, days |-> 31]>>

Hours(days) == days * 24

\* The hours from the start of the window to the start of its i-th month.
RECURSIVE HoursBefore(_)
HoursBefore(i) ==
  IF i <= 1 THEN 0 ELSE HoursBefore(i - 1) + Hours(CalendarWindow[i - 1].days)

\* The month of the window that holds the hour h of a clock.
MonthIndexAt(h) ==
  CHOOSE i \in 1..Len(CalendarWindow) :
    HoursBefore(i) <= h /\ h < HoursBefore(i + 1)

\* The month of the window with this year and this zero-based month.
MonthIndexOf(year, monthIndex) ==
  CHOOSE i \in 1..Len(CalendarWindow) :
    CalendarWindow[i].year = year /\ CalendarWindow[i].month = monthIndex + 1

\* The reading of the local clock at an instant, in a zone that is tz hours
\* ahead of UTC.
LocalHours(t, tz) == t + tz

\* Date.prototype.getFullYear and getMonth: the local year and the local
\* month, counted from zero.
getFullYear(t, tz) == CalendarWindow[MonthIndexAt(LocalHours(t, tz))].year

getMonth(t, tz) == CalendarWindow[MonthIndexAt(LocalHours(t, tz))].month - 1

\* now.toISOString().slice(0, 7): the year and the month of the UTC date, as
\* the "YYYY-MM" text names them.
ISOMonth(t) ==
  [year |-> CalendarWindow[MonthIndexAt(t)].year,
   month |-> CalendarWindow[MonthIndexAt(t)].month]

\* new Date(year, monthIndex, 1): the instant of the local midnight that
\* starts the month.
FirstInstant(year, monthIndex, tz) ==
  HoursBefore(MonthIndexOf(year, monthIndex)) - tz

\* new Date(year, monthIndex + 1, 0, 23, 59, 59, 999): the last millisecond of
\* the local month, which lies in the hour before the next month starts.
LastInstant(year, monthIndex, tz) ==
  HoursBefore(MonthIndexOf(year, monthIndex) + 1) - 1 - tz

\* The first statements of syncAll: the date range and the month key.
SyncAllDates(t, tz) ==
  [monthStart |-> FirstInstant(getFullYear(t, tz), getMonth(t, tz), tz),
   monthEnd |-> LastInstant(getFullYear(t, tz), getMonth(t, tz), tz),
   currentMonth |-> ISOMonth(t)]

\* How far from a month boundary the instants of the model lie, in hours.
MaxHoursOff == 14

\* Hours ahead of UTC, from Baker Island to the Line Islands.
TimezoneOffsets == -12..14

MonthBoundaries == {HoursBefore(i) : i \in 2..Len(CalendarWindow)}

MonthInstants ==
  {b + d : b \in MonthBoundaries, d \in -MaxHoursOff..MaxHoursOff}

MonthInit ==
  /\ \E t \in MonthInstants, tz \in TimezoneOffsets :
       callIn = [fn |-> "syncAll", now |-> t, tz |-> tz]
  /\ callOut = Null
  /\ mergeIn = Null
  /\ mergeOut = Null
  /\ now = StartTime
  /\ HttpAtRest
  /\ OrchAtRest

DatesCall ==
  /\ callIn.fn = "syncAll"
  /\ callOut = Null
  /\ callOut' = SyncAllDates(callIn.now, callIn.tz)
  /\ UNCHANGED <<callIn, notCallVars>>

MonthNext == DatesCall

SpecMonth == MonthInit /\ [][MonthNext]_vars

DatesCalled == callIn # Null /\ callOut # Null /\ callIn.fn = "syncAll"

\* The calendar month the date range covers: the month of the local date of
\* its first instant.
RangeMonth(range, tz) ==
  [year |-> CalendarWindow[MonthIndexAt(LocalHours(range.monthStart, tz))].year,
   month |->
     CalendarWindow[MonthIndexAt(LocalHours(range.monthStart, tz))].month]

\* C39: at every instant and in every timezone, the month that the key of
\* the monthly record names is the calendar month that the date range given
\* to the adapters covers.
C39_KeyNamesRangeMonth ==
  DatesCalled => callOut.currentMonth = RangeMonth(callOut, callIn.tz)

----------------------------------------------------------------------------
(* C40: where _getAllPages stops *)

\* The response carries pagination metadata that holds no last_page.
LacksLastPage(response) ==
  response.pagination # Null /\ "last_page" \notin DOMAIN response.pagination

\* C40: when every request succeeds, _getAllPages returns, and the response
\* to its last request is the first one that has no pagination metadata,
\* whose page number has reached last_page, or whose metadata holds no
\* last_page: no page is requested after such a response.
C40_StopsWithoutLastPage ==
  (Paginated("_getAllPages") /\ ~SomePageFailed) =>
    LET k == Len(callOut.run.requests)
    IN /\ ~callOut.run.threw
       /\ \A i \in 1..(k - 1) :
            /\ ~GemPageIsLast(ServedTo(i), i)
            /\ ~LacksLastPage(ServedTo(i))

====
